---- MODULE Spec2Model ----
(***************************************************************************)
(* Model of the Shipyard compiler passes: the name mangler and signature   *)
(* matcher (shipyard/mangle.py), the dead-code eliminator                   *)
(* (shipyard/passes/remove_unused.py) and the core splitter                 *)
(* (shipyard/passes/core_splitter.py).                                      *)
(*                                                                         *)
(* Python strings are modelled as sequences of one-character strings, so   *)
(* that str.split, the `in` substring test and the f-string formatting of  *)
(* lengths are computed as the code computes them.                          *)
(***************************************************************************)
EXTENDS Integers, Sequences, FiniteSets, TLC

(***************************************************************************)
(* Bounds of the model                                                     *)
(***************************************************************************)
MaxParams == 1
MaxQubits == 1
MaxCands == 2
MaxSigQubits == 2
MaxStmts == 3
MaxPasses == 3

(***************************************************************************)
(* Strings                                                                 *)
(***************************************************************************)
Digits == <<"0", "1", "2", "3", "4", "5", "6", "7", "8", "9">>

IsDigit(c) == \E i \in 1..10 : Digits[i] = c

\* str(n) of a non-negative int, as produced by the f-strings of mangle()
RECURSIVE Dec(_)
Dec(n) == IF n < 10 THEN <<Digits[n + 1]>> ELSE Dec(n \div 10) \o <<Digits[(n % 10) + 1]>>

\* s[i:] of Python, i counted from 0
Drop(s, i) == SubSeq(s, i + 1, Len(s))

\* the 0-based indices at which t occurs in s
Occurrences(s, t) ==
    {i \in 0..(Len(s) - Len(t)) : SubSeq(s, i + 1, i + Len(t)) = t}

\* t in s
Contains(s, t) == Occurrences(s, t) # {}

\* s.split(sep): the list of pieces.  str.split cuts at the occurrences of
\* sep found from left to right without overlap; the separators of mangle.py
\* ("_", "_ZN", "_PN", "_QN", "_R") start with their only "_", so two
\* occurrences never overlap and every occurrence is a cut.
Split(s, sep) ==
    LET hits == Occurrences(s, sep)
        n == Cardinality(hits)
        cut(k) == CHOOSE i \in hits : Cardinality({j \in hits : j < i}) = k - 1
        from(k) == IF k = 1 THEN 0 ELSE cut(k - 1) + Len(sep)
        to(k) == IF k = n + 1 THEN Len(s) ELSE cut(k)
    IN  [k \in 1..(n + 1) |-> SubSeq(s, from(k) + 1, to(k))]

\* sep.join(parts)
RECURSIVE Join(_, _)
Join(parts, sep) ==
    IF Len(parts) = 0 THEN <<>>
    ELSE IF Len(parts) = 1 THEN parts[1]
    ELSE LET h == Len(parts) \div 2
         IN  Join(SubSeq(parts, 1, h), sep) \o sep \o Join(SubSeq(parts, h + 1, Len(parts)), sep)

\* the list l[1:] of Python
Rest(l) == IF Len(l) = 0 THEN <<>> ELSE Tail(l)

US == <<"_">>
ZN == <<"_", "Z", "N">>
PN == <<"_", "P", "N">>
QN == <<"_", "Q", "N">>
RR == <<"_", "R">>
DOLLAR == <<"$">>

(***************************************************************************)
(* utilities.is_number: float(string) succeeds.  The grammar of float()    *)
(* restricted to the characters that occur in the model: an optional sign, *)
(* digits with at most one ".", at least one digit.                        *)
(***************************************************************************)
CountOf(s, c) == Cardinality({i \in 1..Len(s) : s[i] = c})

is_number(string) ==
    LET unsigned == IF Len(string) > 0 /\ string[1] \in {"+", "-"}
                    THEN Tail(string) ELSE string
    IN  /\ \A i \in 1..Len(unsigned) : IsDigit(unsigned[i]) \/ unsigned[i] = "."
        /\ CountOf(unsigned, ".") <= 1
        /\ \E i \in 1..Len(unsigned) : IsDigit(unsigned[i])

(***************************************************************************)
(* FunctionSignature.mangle                                                *)
(***************************************************************************)
Signature(name, params, qubits, return_type) ==
    [name |-> name, params |-> params, qubits |-> qubits, return_type |-> return_type]

mangle(s) ==
    ZN \o Dec(Len(s.name)) \o s.name
    \o PN \o Dec(Len(s.params))
    \o (IF Len(s.params) > 0 THEN US ELSE <<>>)
    \o Join(s.params, US)
    \o QN \o Dec(Len(s.qubits))
    \o (IF Len(s.qubits) > 0 THEN US ELSE <<>>)
    \o Join(s.qubits, US)
    \o RR \o s.return_type

(***************************************************************************)
(* MangledSignature: demangling by delimiter splitting.                    *)
(* A Python IndexError is modelled by the value IndexError.                *)
(***************************************************************************)
IndexError == <<"!", "I", "n", "d", "e", "x", "E", "r", "r", "o", "r">>

\* the index of the first non-digit of s (0-based), or -1 when s[length]
\* runs past the end of the string
RECURSIVE DigitRun(_, _)
DigitRun(s, length) ==
    IF length >= Len(s) THEN -1
    ELSE IF IsDigit(s[length + 1]) THEN DigitRun(s, length + 1)
    ELSE length

MangledName(signature) ==
    LET name_remains == Split(signature, PN)[1]
        pieces == Split(name_remains, ZN)
    IN  IF Len(pieces) < 2 THEN IndexError
        ELSE LET name_and_length == pieces[2]
                 length == DigitRun(name_and_length, 0)
             IN  IF length < 0 THEN IndexError ELSE Drop(name_and_length, length)

MangledParams(signature) ==
    LET pieces == Split(signature, PN)
    IN  IF Len(pieces) < 2 THEN <<IndexError>>
        ELSE LET name_removed == pieces[2]
                 just_params == Split(name_removed, QN)[1]
             IN  Rest(Split(just_params, US))

MangledQubits(signature) ==
    LET pieces == Split(signature, QN)
    IN  IF Len(pieces) < 2 THEN <<IndexError>>
        ELSE LET name_removed == pieces[2]
                 just_params == Split(name_removed, RR)[1]
             IN  Rest(Split(just_params, US))

MangledReturnType(signature) ==
    LET pieces == Split(signature, RR)
    IN  IF Len(pieces) < 2 THEN IndexError ELSE pieces[2]

(***************************************************************************)
(* MangledSignature.match.  The Python score is a sum of the terms 1,      *)
(* 1/(np+1), 1/((np+1)(nq+1)), -100 and -1000, with np, nq the numbers of  *)
(* parameters and qubits of the call.  The model keeps the score exactly,  *)
(* multiplied by Scale = (np+1)(nq+1), so that every term is an integer.   *)
(***************************************************************************)
Scale(params, qubits) == (Len(params) + 1) * (Len(qubits) + 1)

Min(a, b) == IF a < b THEN a ELSE b

LiteralPenalty == 100
QubitPenalty == 1000

\* mutant: a literal passed to a generic parameter counts as a whole match
ParamTermWhole(param, f_param, params, qubits) ==
    IF is_number(f_param)
    THEN IF param = f_param THEN Scale(params, qubits)
         ELSE -(LiteralPenalty * Scale(params, qubits))
    ELSE IF is_number(param) THEN Scale(params, qubits)
    ELSE 0

\* the term one parameter position adds to matches (lines 147-156)
ParamTerm(param, f_param, params, qubits) ==
    IF is_number(f_param)
    THEN IF param = f_param THEN Scale(params, qubits)
         ELSE -(LiteralPenalty * Scale(params, qubits))
    ELSE IF is_number(param) THEN Len(qubits) + 1
    ELSE 0

\* the term one qubit position adds to matches (lines 163-172)
QubitTerm(qubit, f_qubit, params, qubits) ==
    IF qubit = f_qubit \/ (~Contains(qubit, DOLLAR) /\ ~Contains(f_qubit, DOLLAR))
    THEN Scale(params, qubits)
    ELSE IF Contains(qubit, DOLLAR) /\ ~Contains(f_qubit, DOLLAR) THEN 1
    ELSE IF Contains(f_qubit, DOLLAR) THEN -(QubitPenalty * Scale(params, qubits))
    ELSE 0

\* f[lo] + ... + f[hi]
RECURSIVE SumRange(_, _, _)
SumRange(f, lo, hi) ==
    IF lo > hi THEN 0
    ELSE IF lo = hi THEN f[lo]
    ELSE LET mid == (lo + hi) \div 2
         IN  SumRange(f, lo, mid) + SumRange(f, mid + 1, hi)

SumTo(f, n) == SumRange(f, 1, n)

\* MangledSignature(signature).match(params, qubits), times Scale
SignatureMatch(signature, params, qubits) ==
    LET f_params == MangledParams(signature)
        f_qubits == MangledQubits(signature)
        np == Min(Len(params), Len(f_params))
        nq == Min(Len(qubits), Len(f_qubits))
        pterms == [i \in 1..np |-> ParamTerm(params[i], f_params[i], params, qubits)]
        qterms == [i \in 1..nq |-> QubitTerm(qubits[i], f_qubits[i], params, qubits)]
    IN  SumTo(pterms, np) + SumTo(qterms, nq)

(***************************************************************************)
(* FunctionSignature.match                                                 *)
(***************************************************************************)
\* filter_symbols(symbols, term): the symbols that contain term, in order
filter_symbols(symbols, term) ==
    LET has(symbol) == Contains(symbol, term) IN SelectSeq(symbols, has)

FilteredSymbols(s, mangled_names) ==
    LET f1 == filter_symbols(mangled_names, ZN \o Dec(Len(s.name)) \o s.name)
        f2 == filter_symbols(f1, PN \o Dec(Len(s.params)))
    IN  filter_symbols(f2, QN \o Dec(Len(s.qubits)))

\* the keys of a dict built from a list: each key once, at its first place
RECURSIVE DictKeys(_)
DictKeys(l) ==
    IF Len(l) = 0 THEN <<>>
    ELSE LET front == DictKeys(SubSeq(l, 1, Len(l) - 1))
             last == l[Len(l)]
         IN  IF \E i \in 1..Len(front) : front[i] = last THEN front
             ELSE Append(front, last)

\* match_dict of line 266, as the list of its (symbol, score) items
MatchDict(s, f_symbols) ==
    LET keys == DictKeys(f_symbols)
    IN  [i \in 1..Len(keys) |->
            [symbol |-> keys[i], matches |-> SignatureMatch(keys[i], s.params, s.qubits)]]

\* mutant: the filter of line 274 written with v > 0
NonNegativeStrict(items) ==
    LET ok(item) == item.matches > 0 IN SelectSeq(items, ok)

\* line 274: the items with v >= 0
NonNegative(items) ==
    LET ok(item) == item.matches >= 0 IN SelectSeq(items, ok)

\* lines 276-281: the symbols whose score is max(match_dict.values())
BestMatched(items) ==
    LET best(item) == \A j \in 1..Len(items) : items[j].matches <= item.matches
        kept == SelectSeq(items, best)
    IN  [i \in 1..Len(kept) |-> kept[i].symbol]

Match(s, mangled_names) ==
    BestMatched(NonNegative(MatchDict(s, FilteredSymbols(s, mangled_names))))

(***************************************************************************)
(* State                                                                   *)
(***************************************************************************)
VARIABLES
    pc,                    \* the step the modelled call has reached
    sig,                   \* a FunctionSignature
    other,                 \* a second FunctionSignature
    mangled,               \* sig.mangle()
    mangled_other,         \* other.mangle()
    demangled,             \* the fields MangledSignature recovers from mangled
    call,                  \* the FunctionSignature of a call (self in match)
    candidates,            \* the signatures of the definitions matched against
    mangled_names,         \* the argument of FunctionSignature.match
    f_symbols,             \* match: the symbols left by the three filters
    match_dict,            \* match: the items of match_dict (line 266)
    best_matched_symbols,  \* match: the returned list
    parsed,                \* the syntax tree handed to the passes
    program,               \* the statements of the tree after the passes run so far
    target_ports,          \* CoreSplitter.target_ports
    frames,                \* CoreSplitter.frames
    unused,                \* RemoveUnused.unused of the last pass
    declared,              \* RemoveUnused.declared of the last pass
    remove_assignment,     \* RemoveUnused.remove_assignment of the last pass
    passes,                \* the number of RemoveUnused passes run on the tree
    visitor,               \* the class of the visitor that walks a program
    statements,            \* the statements of the program it is given
    todo,                  \* what the walk has still to do, innermost first
    call_stack,            \* CallStack._records
    calibration_scope,     \* Interpreter.calibration_scope
    defcal_names,          \* Interpreter.defcal_names
    defcal_nodes,          \* Interpreter.defcal_nodes
    flagged_wfs,           \* TimingConstraints.flagged_wfs
    error,                 \* the error the walk has raised
    trace,                 \* what the walk has done so far
    tables,                \* the ScopedSymbolTable objects created so far
    current_scope,         \* SemanticAnalyzer.current_scope
    _calibration_scope,    \* SemanticAnalyzer._calibration_scope
    scope_context,         \* SemanticAnalyzer._scope_context
    enclosing,             \* the locals of the open scope_context_managers
    lhs,                   \* a Duration
    rhs,                   \* a second Duration
    added,                 \* lhs + rhs
    frame_times,           \* the Duration objects the frames hold as time
    invoked,               \* the last call on the frames
    raised,                \* the error the last call on the frames raised
    calls,                 \* the number of calls made on the frames
    phases,                \* Frame.phase of the frames of the call stack
    subroutines,           \* Interpreter.subroutines
    external_funcs,        \* Interpreter.external_funcs
    interpret,             \* SEQCPrinter.interpret
    self_context,          \* CoreSplitter.context
    previous,              \* prev_interpret, old_context of the open managers
    play_frames            \* record, loop_var, loop_value of the open visit_play calls

mangleVars == <<sig, other, mangled, mangled_other, demangled>>
matchVars == <<call, candidates, mangled_names, f_symbols, match_dict, best_matched_symbols>>
passVars == <<parsed, program, target_ports, frames, unused, declared, remove_assignment, passes>>
interpVars ==
    <<visitor, statements, todo, call_stack, calibration_scope, defcal_names,
      defcal_nodes, flagged_wfs, error, trace>>
semVars == <<tables, current_scope, _calibration_scope, scope_context, enclosing>>
durationVars == <<lhs, rhs, added>>
frameVars == <<frame_times, invoked, raised, calls>>
scopeVars == <<interpret, self_context, previous>>
fieldVars == <<phases, subroutines, external_funcs, scopeVars, play_frames>>
restVars == <<interpVars, semVars, durationVars, frameVars, fieldVars>>
vars == <<pc, mangleVars, matchVars, passVars, restVars>>

None == <<>>

\* all sequences over S of length at most n
RECURSIVE SeqsUpTo(_, _)
SeqsUpTo(S, n) ==
    IF n = 0 THEN {<<>>}
    ELSE LET shorter == SeqsUpTo(S, n - 1)
         IN  shorter \cup {Append(l, e) : l \in {m \in shorter : Len(m) = n - 1}, e \in S}

\* n copies of e
Repeat(e, n) == [i \in 1..n |-> e]

(***************************************************************************)
(* Inputs of the mangling specification                                    *)
(***************************************************************************)
NameX == <<"x">>
NameY == <<"y">>
NameRx == <<"a", "_", "R", "x">>
Lit1 == <<"1">>
Lit2 == <<"2">>
TypeP == <<"p">>
Phys0 == <<"$", "0">>
Phys1 == <<"$", "1">>
WildQ == <<"q">>
WildR == <<"r">>
WildQQ == <<"q", "_", "q">>
NoType == <<>>
BitType == <<"B", "I", "T">>

SigNames == {NameX, NameRx}
SigParamTokens == {Lit1, TypeP}
SigQubitTokens == {Phys0, WildQ, WildQQ}
SigReturnTypes == {NoType, BitType}

SigPool ==
    {Signature(n, p, q, r) :
        n \in SigNames, p \in SeqsUpTo(SigParamTokens, MaxParams),
        q \in SeqsUpTo(SigQubitTokens, MaxSigQubits), r \in SigReturnTypes}

NoMatchState ==
    /\ call = None /\ candidates = None /\ mangled_names = None
    /\ f_symbols = None /\ match_dict = None /\ best_matched_symbols = None

NoMangleState ==
    /\ sig = None /\ other = None /\ mangled = None
    /\ mangled_other = None /\ demangled = None

NoPassState ==
    /\ parsed = None /\ program = None /\ target_ports = {} /\ frames = {}
    /\ unused = {} /\ declared = {} /\ remove_assignment = {} /\ passes = 0

NoInterpState ==
    /\ visitor = None /\ statements = None /\ todo = None /\ call_stack = None
    /\ calibration_scope = None /\ defcal_names = None /\ defcal_nodes = None
    /\ flagged_wfs = None /\ error = None /\ trace = None

NoSemState ==
    /\ tables = None /\ current_scope = None /\ _calibration_scope = None
    /\ scope_context = None /\ enclosing = None

NoScopeState ==
    /\ interpret = None /\ self_context = None /\ previous = None

NoFieldState ==
    /\ phases = None /\ subroutines = None /\ external_funcs = None
    /\ NoScopeState /\ play_frames = None

NoTimeState ==
    /\ lhs = None /\ rhs = None /\ added = None
    /\ frame_times = None /\ invoked = None /\ raised = None /\ calls = 0
    /\ NoFieldState

NoRestState == NoInterpState /\ NoSemState /\ NoTimeState

InitMangle ==
    /\ pc = "signature"
    /\ sig \in SigPool
    /\ other = None /\ mangled = None /\ mangled_other = None /\ demangled = None
    /\ NoMatchState
    /\ NoPassState
    /\ NoRestState

\* s.mangle() for the signature held in sig
Mangle ==
    /\ pc = "signature"
    /\ mangled' = mangle(sig)
    /\ pc' = "mangled"
    /\ UNCHANGED <<sig, other, mangled_other, demangled, matchVars, passVars, restVars>>

\* MangledSignature(signature=mangled): name(), params(), qubits(), return_type()
Demangle ==
    /\ pc = "mangled"
    /\ demangled' = [name |-> MangledName(mangled),
                     params |-> MangledParams(mangled),
                     qubits |-> MangledQubits(mangled),
                     return_type |-> MangledReturnType(mangled)]
    /\ pc' = "demangled"
    /\ UNCHANGED <<sig, other, mangled, mangled_other, matchVars, passVars, restVars>>

\* a second signature is mangled
MangleOther ==
    /\ pc = "demangled"
    /\ \E o \in SigPool :
        /\ other' = o
        /\ mangled_other' = mangle(o)
    /\ pc' = "both"
    /\ UNCHANGED <<sig, mangled, demangled, matchVars, passVars, restVars>>

NextMangle == Mangle \/ Demangle \/ MangleOther

SpecMangle == InitMangle /\ [][NextMangle]_vars

(***************************************************************************)
(* Inputs of the matching specification                                    *)
(***************************************************************************)
WideQubits == 10
PenaltyQubits == 100

CandNames == {NameX, NameY}
CandParamTokens == {Lit1, Lit2, TypeP}
CandQubitTokens == {Phys0, Phys1, WildQ, WildR}
CallParamTokens == {Lit1, TypeP}
CallQubitTokens == {Phys0, WildQ}

CandPool ==
    {Signature(n, p, q, NoType) :
        n \in CandNames, p \in SeqsUpTo(CandParamTokens, MaxParams),
        q \in SeqsUpTo(CandQubitTokens, MaxQubits)}

CallPool ==
    {Signature(NameX, p, q, NoType) :
        p \in SeqsUpTo(CallParamTokens, MaxParams),
        q \in SeqsUpTo(CallQubitTokens, MaxQubits)}

\* definitions and calls with at most one parameter and one qubit, for
\* calls matched against several definitions
OneOf(tokens) == {<<>>} \cup {<<t>> : t \in tokens}

ShortCandPool ==
    {Signature(NameX, p, q, NoType) :
        p \in OneOf(CandParamTokens), q \in OneOf(CandQubitTokens)}
    \cup {Signature(NameY, <<>>, <<Phys0>>, NoType)}

ShortCallPool ==
    {Signature(NameX, p, q, NoType) :
        p \in OneOf(CallParamTokens), q \in OneOf(CallQubitTokens)}

\* definitions and calls with many qubits
WideCandPool ==
    {Signature(NameX, p, Repeat(WildQ, n), NoType) :
        p \in {<<>>, <<Lit1>>, <<Lit2>>}, n \in {WideQubits, PenaltyQubits}}

WideCallPool ==
    {Signature(NameX, p, Repeat(WildQ, n), NoType) :
        p \in {<<>>, <<Lit1>>}, n \in {1, PenaltyQubits}}

InitMatch ==
    /\ pc = "call"
    /\ \/ /\ call \in CallPool
          /\ candidates \in SeqsUpTo(CandPool, 1)
       \/ /\ call \in ShortCallPool
          /\ candidates \in SeqsUpTo(ShortCandPool, MaxCands)
       \/ /\ call \in WideCallPool
          /\ candidates \in SeqsUpTo(WideCandPool, 1)
    /\ mangled_names = None /\ f_symbols = None
    /\ match_dict = None /\ best_matched_symbols = None
    /\ NoMangleState
    /\ NoPassState
    /\ NoRestState

\* the caller mangles the definitions and calls call.match(mangled_names)
MatchCall ==
    /\ pc = "call"
    /\ LET names == [i \in 1..Len(candidates) |-> mangle(candidates[i])]
           filtered == FilteredSymbols(call, names)
           items == MatchDict(call, filtered)
       IN  /\ mangled_names' = names
           /\ f_symbols' = filtered
           /\ match_dict' = items
           /\ best_matched_symbols' = BestMatched(NonNegative(items))
    /\ pc' = "matched"
    /\ UNCHANGED <<call, candidates, mangleVars, passVars, restVars>>

NextMatch == MatchCall

SpecMatch == InitMatch /\ [][NextMatch]_vars

Spec == SpecMatch

(***************************************************************************)
(* Two definitions scored against one call: the call passes the literal 1  *)
(* for each of its up to MaxScored parameters and has up to MaxScored      *)
(* qubits, all physical or all wildcard; the definitions have as many      *)
(* parameters, literal or generic, and as many qubits, physical or         *)
(* wildcard.                                                               *)
(***************************************************************************)
MaxScored == 2

ScoredDefinitions(np, nq) ==
    {Signature(NameX, p, q, NoType) :
        p \in {l \in SeqsUpTo({Lit1, TypeP}, np) : Len(l) = np},
        q \in {l \in SeqsUpTo({Phys0, WildQ}, nq) : Len(l) = nq}}

InitScore ==
    /\ pc = "call"
    /\ \E np \in 0..MaxScored, nq \in 0..MaxScored :
          /\ call \in {Signature(NameX, Repeat(Lit1, np), Repeat(q, nq), NoType) :
                          q \in {Phys0, WildQ}}
          /\ candidates \in {<<c, d>> : c \in ScoredDefinitions(np, nq),
                                        d \in ScoredDefinitions(np, nq)}
    /\ mangled_names = None /\ f_symbols = None
    /\ match_dict = None /\ best_matched_symbols = None
    /\ NoMangleState
    /\ NoPassState
    /\ NoRestState

SpecScore == InitScore /\ [][NextMatch]_vars

Range(l) == {l[i] : i \in 1..Len(l)}

(***************************************************************************)
(* Syntax trees.  An expression is a record (kind, type, name, arguments); *)
(* a statement is a record (kind, type, name, arguments, qubits,           *)
(* return_type, body, target, expression).  Names are strings of the       *)
(* program (sequences of characters); a field a node class does not have   *)
(* holds None.                                                             *)
(***************************************************************************)
Expr(kind, type, name, arguments) ==
    [kind |-> kind, type |-> type, name |-> name, arguments |-> arguments]

NoExpr == Expr("None", None, None, <<>>)
Identifier(name) == Expr("Identifier", None, name, <<>>)
IntegerLiteral(text) == Expr("IntegerLiteral", None, text, <<>>)
ClassicalArgument(type, name) == Expr("ClassicalArgument", type, name, <<>>)
FunctionCall(name, arguments) == Expr("FunctionCall", None, name, arguments)

Node(kind, type, name, arguments, qubits, return_type, body, target, expression) ==
    [kind |-> kind, type |-> type, name |-> name, arguments |-> arguments,
     qubits |-> qubits, return_type |-> return_type, body |-> body,
     target |-> target, expression |-> expression]

ClassicalDeclaration(type, identifier, init_expression) ==
    Node("ClassicalDeclaration", type, identifier, <<>>, <<>>, None, <<>>, None, init_expression)
CalibrationDefinition(name, arguments, qubits, return_type, body) ==
    Node("CalibrationDefinition", "", name, arguments, qubits, return_type, body, None, NoExpr)
CalibrationStatement(body) ==
    Node("CalibrationStatement", "", None, <<>>, <<>>, None, body, None, NoExpr)
QuantumGate(name, arguments, qubits) ==
    Node("QuantumGate", "", name, arguments, qubits, None, <<>>, None, NoExpr)
QuantumMeasurementStatement(qubit, target) ==
    Node("QuantumMeasurementStatement", "", None, <<>>, <<qubit>>, None, <<>>, target, NoExpr)
QuantumReset(qubit) ==
    Node("QuantumReset", "", None, <<>>, <<qubit>>, None, <<>>, None, NoExpr)
ExpressionStatement(expression) ==
    Node("ExpressionStatement", "", None, <<>>, <<>>, None, <<>>, None, expression)
ReturnStatement(expression) ==
    Node("ReturnStatement", "", None, <<>>, <<>>, None, <<>>, None, expression)
DelayInstruction(duration, qubits) ==
    Node("DelayInstruction", "", None, <<>>, qubits, None, <<>>, None, duration)

(***************************************************************************)
(* Mangler: the FunctionSignature of a definition or of a call             *)
(***************************************************************************)
MeasureName == <<"m", "e", "a", "s", "u", "r", "e">>
ResetName == <<"r", "e", "s", "e", "t">>

\* the string Mangler returns for one argument: the type of a classical
\* argument, the name of an identifier, the text of a literal
ManglerArgument(arg) ==
    IF arg.kind = "ClassicalArgument" THEN arg.type ELSE arg.name

ManglerSignature(node) ==
    LET arguments == [i \in 1..Len(node.arguments) |-> ManglerArgument(node.arguments[i])]
    IN  CASE node.kind = "CalibrationDefinition" ->
                Signature(node.name, arguments, node.qubits, node.return_type)
          [] node.kind = "QuantumGate" ->
                Signature(node.name, arguments, node.qubits, NoType)
          [] node.kind = "QuantumReset" ->
                Signature(ResetName, <<>>, node.qubits, NoType)
          [] node.kind = "QuantumMeasurementStatement" ->
                Signature(MeasureName, <<>>, node.qubits, BitType)

(***************************************************************************)
(* _DetermineUnused                                                        *)
(***************************************************************************)
\* a Python set listed in iteration order: ord lists the strings of the set
\* that can pass the filters of match, in the order the set yields them
SetList(S, ord) ==
    LET member(e) == e \in S IN SelectSeq(ord, member)

\* the names visit_Identifier discards while an expression is visited
RECURSIVE Identifiers(_)
Identifiers(e) ==
    CASE e.kind \in {"Identifier", "ClassicalArgument"} -> {e.name}
      [] e.kind = "FunctionCall" ->
            {e.name} \cup UNION {Identifiers(e.arguments[i]) : i \in 1..Len(e.arguments)}
      [] OTHER -> {}

IdentifiersOfList(l) == UNION {Identifiers(l[i]) : i \in 1..Len(l)}

\* matches = signature.match(self.unused); self.unused.discard(matches[0])
DiscardFirstMatch(signature, names, ord) ==
    LET matches == Match(signature, SetList(names, ord))
    IN  IF Len(matches) > 0 THEN names \ {matches[1]} ELSE names

\* the visit of one statement, from the sets reached so far: the sets
\* before the statements of its body are visited
DetermineUnused_visit(node, names, decl, ord) ==
    CASE node.kind = "ClassicalDeclaration" ->
            [unused |-> (names \cup {node.name}) \ Identifiers(node.expression),
             declared |-> decl \cup {node.name}]
      [] node.kind = "CalibrationDefinition" ->
            [unused |-> (names \cup {mangle(ManglerSignature(node))})
                            \ (IdentifiersOfList(node.arguments) \cup Range(node.qubits)),
             declared |-> decl \cup {mangle(ManglerSignature(node))}]
      [] node.kind = "QuantumGate" ->
            [unused |-> DiscardFirstMatch(ManglerSignature(node), names, ord)
                            \ IdentifiersOfList(node.arguments),
             declared |-> decl]
      [] node.kind = "QuantumMeasurementStatement" ->
            [unused |-> DiscardFirstMatch(ManglerSignature(node), names, ord)
                            \ (IF node.target = None THEN {} ELSE {node.target}),
             declared |-> decl]
      [] node.kind = "QuantumReset" ->
            [unused |-> DiscardFirstMatch(ManglerSignature(node), names, ord),
             declared |-> decl]
      [] node.kind \in {"ExpressionStatement", "ReturnStatement"} ->
            [unused |-> names \ Identifiers(node.expression), declared |-> decl]
      [] node.kind = "CalibrationStatement" ->
            [unused |-> names, declared |-> decl]
      [] node.kind = "DelayInstruction" ->
            [unused |-> names \ (Identifiers(node.expression) \cup Range(node.qubits)),
             declared |-> decl]

\* the visit of a list of statements: each statement is visited, then the
\* statements of its body, then the statements that follow it
RECURSIVE DetermineUnused(_, _, _, _)
DetermineUnused(nodes, names, decl, ord) ==
    IF Len(nodes) = 0 THEN [unused |-> names, declared |-> decl]
    ELSE LET after == DetermineUnused_visit(Head(nodes), names, decl, ord)
         IN  DetermineUnused(Head(nodes).body \o Tail(nodes),
                 after.unused, after.declared, ord)

(***************************************************************************)
(* RemoveUnused                                                            *)
(***************************************************************************)
\* visit_ClassicalDeclaration: the declaration is returned
RemoveUnused_ClassicalDeclaration(node, names) == node.name \notin names

\* mutant: a definition named measure is treated as any other
RemoveUnused_CalibrationDefinitionNoMeasure(node, names, ord) ==
    Len(Match(ManglerSignature(node), SetList(names, ord))) = 0 /\ Len(node.body) > 0

\* visit_CalibrationDefinition, the condition of lines 374-378 on the
\* definition whose body has been visited: the definition is returned
RemoveUnused_CalibrationDefinition(node, names, ord) ==
    \/ Len(Match(ManglerSignature(node), SetList(names, ord))) = 0 /\ Len(node.body) > 0
    \/ node.name = MeasureName

\* lines 380-382
has_return(body) == \E i \in 1..Len(body) : body[i].kind = "ReturnStatement"

\* visit_QuantumGate, visit_QuantumMeasurement, visit_QuantumReset: the call
\* is returned
RemoveUnused_QuantumCall(node, decl, ord) ==
    Len(Match(ManglerSignature(node), SetList(decl, ord))) > 0

\* visit_QuantumMeasurementStatement, lines 522-525
RemoveAssignment(node, assignments) ==
    LET s == ManglerSignature(node)
        call_name == mangle(Signature(s.name, s.params, s.qubits, NoType))
    IN  IF call_name \in assignments THEN [node EXCEPT !.target = None] ELSE node

\* self.visit(node) of the transformer on a statement whose body has been
\* visited (inner: the body returned and remove_assignment after it): the
\* nodes returned for the statement, and remove_assignment after the visit
RemoveUnused_visit(node, inner, names, decl, assignments, ord) ==
    CASE node.kind = "ClassicalDeclaration" ->
            [nodes |-> IF RemoveUnused_ClassicalDeclaration(node, names)
                       THEN <<node>> ELSE <<>>,
             remove_assignment |-> assignments]
      [] node.kind = "CalibrationDefinition" ->
            IF RemoveUnused_CalibrationDefinition([node EXCEPT !.body = inner.nodes],
                                                  names, ord)
            THEN IF node.return_type # None /\ ~has_return(inner.nodes)
                 THEN [nodes |-> <<[node EXCEPT !.body = inner.nodes,
                                                !.return_type = None]>>,
                       remove_assignment |-> inner.remove_assignment \cup
                           {mangle(ManglerSignature([node EXCEPT !.return_type = None]))}]
                 ELSE [nodes |-> <<[node EXCEPT !.body = inner.nodes]>>,
                       remove_assignment |-> inner.remove_assignment]
            ELSE [nodes |-> <<>>, remove_assignment |-> inner.remove_assignment]
      [] node.kind \in {"QuantumGate", "QuantumReset"} ->
            [nodes |-> IF RemoveUnused_QuantumCall(node, decl, ord) THEN <<node>> ELSE <<>>,
             remove_assignment |-> assignments]
      [] node.kind = "QuantumMeasurementStatement" ->
            [nodes |-> IF RemoveUnused_QuantumCall(node, decl, ord)
                       THEN <<RemoveAssignment(node, assignments)>> ELSE <<>>,
             remove_assignment |-> assignments]
      [] node.kind = "CalibrationStatement" ->
            [nodes |-> <<[node EXCEPT !.body = inner.nodes]>>,
             remove_assignment |-> inner.remove_assignment]
      [] OTHER -> [nodes |-> <<node>>, remove_assignment |-> assignments]

\* the nodes returned for a statement, followed by those returned for the
\* statements after it
RemoveUnused_extend(first, rest) ==
    [nodes |-> first.nodes \o rest.nodes, remove_assignment |-> rest.remove_assignment]

\* _visit_list(nodes, self.visit) of the transformer: the nodes that are
\* returned, and remove_assignment after the visit
RECURSIVE RemoveUnused_visit_list(_, _, _, _, _)
RECURSIVE RemoveUnused_visit_rest(_, _, _, _, _)
RemoveUnused_visit_list(nodes, names, decl, assignments, ord) ==
    IF Len(nodes) = 0 THEN [nodes |-> <<>>, remove_assignment |-> assignments]
    ELSE RemoveUnused_visit_rest(
            RemoveUnused_visit(Head(nodes),
                RemoveUnused_visit_list(Head(nodes).body, names, decl, assignments, ord),
                names, decl, assignments, ord),
            Tail(nodes), names, decl, ord)

\* the statements after the first are visited with the remove_assignment
\* the first has left
RemoveUnused_visit_rest(first, nodes, names, decl, ord) ==
    RemoveUnused_extend(first,
        RemoveUnused_visit_list(nodes, names, decl, first.remove_assignment, ord))

\* all orderings of the elements of S
Orders(S) ==
    {ord \in [1..Cardinality(S) -> S] : \A i, j \in 1..Cardinality(S) : ord[i] = ord[j] => i = j}

\* the mangled names of the calibration definitions of a tree; no other
\* declared name contains "_ZN", so these are the only strings of the sets
\* unused and declared that pass the first filter of match
RECURSIVE DefinitionNames(_)
DefinitionNames(nodes) ==
    IF Len(nodes) = 0 THEN {}
    ELSE LET node == Head(nodes)
         IN  (CASE node.kind = "CalibrationDefinition" -> {mangle(ManglerSignature(node))}
                [] node.kind = "CalibrationStatement" -> DefinitionNames(node.body)
                [] OTHER -> {})
             \cup DefinitionNames(Tail(nodes))

(***************************************************************************)
(* CoreSplitter                                                            *)
(***************************************************************************)
NewFrame == <<"n", "e", "w", "f", "r", "a", "m", "e">>
Play == <<"p", "l", "a", "y">>
CaptureV1 == <<"c", "a", "p", "t", "u", "r", "e", "_", "v", "1">>
CaptureV2 == <<"c", "a", "p", "t", "u", "r", "e", "_", "v", "2">>
CaptureV3 == <<"c", "a", "p", "t", "u", "r", "e", "_", "v", "3">>
CaptureV1Spectrum == CaptureV1 \o <<"_", "s", "p", "e", "c", "t", "r", "u", "m">>
SetFrequency == <<"s", "e", "t", "_", "f", "r", "e", "q", "u", "e", "n", "c", "y">>
ShiftFrequency == <<"s", "h", "i", "f", "t", "_", "f", "r", "e", "q", "u", "e", "n", "c", "y">>
SetPhase == <<"s", "e", "t", "_", "p", "h", "a", "s", "e">>
ShiftPhase == <<"s", "h", "i", "f", "t", "_", "p", "h", "a", "s", "e">>

\* the names of the pattern of visit_FunctionCall (lines 160-170)
PulseFunctions ==
    {Play, CaptureV1, CaptureV2, CaptureV3, CaptureV1Spectrum,
     SetFrequency, ShiftFrequency, SetPhase, ShiftPhase}

\* the first case of visit_FunctionCall (lines 159-172): one of the names
\* above, called with exactly two arguments
IsPulseCall(e) ==
    e.kind = "FunctionCall" /\ e.name \in PulseFunctions /\ Len(e.arguments) = 2

\* line 105: self.frames.add(frame_id.name)
RecordFrame(frame_id, kept) == kept \cup {frame_id}

\* mutant: every frame declaration is kept
KeepFrameAlways(port_arg, ports) == TRUE

\* line 104: port_arg.name in self.target_ports
KeepFrame(port_arg, ports) == port_arg.name \in ports

\* line 116: port.name in self.target_ports
KeepPort(port, ports) == port \in ports

\* line 173: frame_arg.name in self.frames
KeepPulseCall(frame_arg, kept) == frame_arg.name \in kept

\* self.visit(expression): the expression returned, NoExpr when it is removed
RECURSIVE CoreSplitter_visit(_, _)
CoreSplitter_visit(e, kept) ==
    IF e.kind # "FunctionCall" THEN e
    ELSE IF IsPulseCall(e) /\ ~KeepPulseCall(e.arguments[1], kept) THEN NoExpr
    ELSE LET visited == [i \in 1..Len(e.arguments) |-> CoreSplitter_visit(e.arguments[i], kept)]
             returned(a) == a # NoExpr
         IN  [e EXCEPT !.arguments = SelectSeq(visited, returned)]

\* the first case of visit_ClassicalDeclaration (lines 96-103)
IsFrameDeclaration(node) ==
    /\ node.type = "FrameType"
    /\ node.expression.kind = "FunctionCall"
    /\ node.expression.name = NewFrame
    /\ Len(node.expression.arguments) = 3

\* _visit_list(nodes, self.visit) of the splitter within a scope: the nodes
\* returned, self.frames after the visit, and whether TransformError was
\* raised
RECURSIVE CoreSplitter_visit_list(_, _, _, _)
CoreSplitter_visit_list(nodes, ports, kept, context) ==
    IF Len(nodes) = 0 THEN [nodes |-> <<>>, frames |-> kept, error |-> FALSE]
    ELSE
      LET node == Head(nodes)
          keep(n, f) == [nodes |-> <<n>>, frames |-> f, error |-> FALSE]
          drop(f) == [nodes |-> <<>>, frames |-> f, error |-> FALSE]
          returned(a) == a # NoExpr
          copy == [node EXCEPT !.expression = CoreSplitter_visit(node.expression, kept),
                               !.arguments = SelectSeq([i \in 1..Len(node.arguments) |->
                                   CoreSplitter_visit(node.arguments[i], kept)], returned)]
          first ==
            CASE node.kind = "ClassicalDeclaration" /\ IsFrameDeclaration(node) ->
                    IF KeepFrame(node.expression.arguments[1], ports)
                    THEN LET f == RecordFrame(node.name, kept)
                         IN  keep([node EXCEPT !.expression =
                                      CoreSplitter_visit(node.expression, f)], f)
                    ELSE drop(kept)
              [] node.kind = "ClassicalDeclaration" /\ ~IsFrameDeclaration(node)
                    /\ node.type = "FrameType" ->
                    [nodes |-> <<>>, frames |-> kept, error |-> TRUE]
              [] node.kind = "ClassicalDeclaration" /\ node.type = "PortType" ->
                    IF KeepPort(node.name, ports) THEN keep(copy, kept) ELSE drop(kept)
              [] node.kind \in {"ExpressionStatement", "ReturnStatement"} ->
                    IF copy.expression # NoExpr THEN keep(copy, kept) ELSE drop(kept)
              [] node.kind = "CalibrationStatement" ->
                    LET inner == CoreSplitter_visit_list(node.body, ports, kept, "DEFCAL")
                    IN  [nodes |-> <<[node EXCEPT !.body = inner.nodes]>>,
                         frames |-> inner.frames, error |-> inner.error]
              [] node.kind = "CalibrationDefinition" ->
                    LET inner == CoreSplitter_visit_list(node.body, ports, kept, "DEFCAL")
                    IN  [nodes |-> IF Len(inner.nodes) > 0
                                   THEN <<[copy EXCEPT !.body = inner.nodes]>> ELSE <<>>,
                         frames |-> inner.frames, error |-> inner.error]
              [] node.kind = "DelayInstruction" ->
                    IF context = "DEFCAL" /\ node.qubits[1] \notin kept
                    THEN drop(kept) ELSE keep(node, kept)
              [] OTHER -> keep(copy, kept)
      IN  IF first.error THEN first
          ELSE LET rest == CoreSplitter_visit_list(Tail(nodes), ports, first.frames, context)
               IN  [nodes |-> first.nodes \o rest.nodes, frames |-> rest.frames,
                    error |-> rest.error]

(***************************************************************************)
(* Inputs of the pass specifications                                       *)
(***************************************************************************)
VarA == <<"a">>
VarB == <<"b">>
VarC == <<"c">>
Waveform == <<"w">>
Port1 == <<"p", "1">>
Port2 == <<"p", "2">>
Port3 == <<"p", "3">>
Frame1 == <<"f", "1">>
Frame2 == <<"f", "2">>
Frame3 == <<"f", "3">>
OtherFunction == <<"o", "t", "h", "e", "r">>
Zero == <<"0">>

PulseCall(function, frame) == FunctionCall(function, <<Identifier(frame), Identifier(Waveform)>>)
PlayOn(frame) == ExpressionStatement(PulseCall(Play, frame))
NewFrameOn(frame, port) ==
    ClassicalDeclaration("FrameType", frame,
        FunctionCall(NewFrame, <<Identifier(port), IntegerLiteral(Zero), IntegerLiteral(Zero)>>))

\* statements of the trees handed to RemoveUnused
RemoveStatements ==
    {ClassicalDeclaration("IntType", VarA, NoExpr),
     ClassicalDeclaration("IntType", VarB, Identifier(VarA)),
     ClassicalDeclaration("IntType", VarC, Identifier(VarB)),
     CalibrationDefinition(NameX, <<>>, <<Phys0>>, None, <<PlayOn(Frame1)>>),
     CalibrationDefinition(NameX, <<>>, <<WildQ>>, None, <<PlayOn(Frame1)>>),
     CalibrationDefinition(NameX, <<>>, <<WildR>>, None, <<PlayOn(Frame1)>>),
     CalibrationDefinition(MeasureName, <<>>, <<Phys0>>, BitType,
        <<ReturnStatement(PulseCall(CaptureV2, Frame1))>>),
     CalibrationDefinition(MeasureName, <<>>, <<Phys1>>, None, <<>>),
     CalibrationDefinition(MeasureName, <<>>, <<WildQ>>, BitType, <<PlayOn(Frame1)>>),
     QuantumGate(NameX, <<>>, <<Phys0>>),
     QuantumMeasurementStatement(Phys0, VarA)}

RemovePrograms == SeqsUpTo(RemoveStatements, MaxStmts)

\* statements of the trees handed to CoreSplitter
SplitStatements ==
    {ClassicalDeclaration("PortType", Port1, NoExpr),
     ClassicalDeclaration("PortType", Port2, NoExpr),
     NewFrameOn(Frame1, Port1),
     NewFrameOn(Frame2, Port2),
     ClassicalDeclaration("FrameType", Frame3, NoExpr),
     PlayOn(Frame1),
     PlayOn(Frame2),
     ExpressionStatement(FunctionCall(Play,
        <<Identifier(Frame2), Identifier(Waveform), Identifier(Waveform)>>)),
     ExpressionStatement(FunctionCall(OtherFunction, <<PulseCall(ShiftPhase, Frame2)>>)),
     ClassicalDeclaration("BitType", VarB, PulseCall(CaptureV2, Frame2)),
     CalibrationStatement(<<NewFrameOn(Frame2, Port2), PlayOn(Frame2),
        DelayInstruction(IntegerLiteral(Zero), <<Frame2>>)>>),
     CalibrationDefinition(NameX, <<>>, <<Phys0>>, None, <<PlayOn(Frame1), PlayOn(Frame2)>>),
     CalibrationDefinition(MeasureName, <<>>, <<Phys0>>, BitType,
        <<PlayOn(Frame1), ReturnStatement(PulseCall(CaptureV2, Frame2))>>),
     CalibrationDefinition(MeasureName, <<>>, <<Phys1>>, BitType,
        <<ClassicalDeclaration("BitType", VarB, PulseCall(CaptureV2, Frame2)),
          ReturnStatement(Identifier(VarB))>>),
     QuantumGate(NameX, <<>>, <<Phys0>>)}

SplitPrograms == SeqsUpTo(SplitStatements, MaxStmts)

TargetPorts == {{Port1}, {Port2}, {Port1, Port2}, {Port3}}

(***************************************************************************)
(* The passes                                                              *)
(***************************************************************************)
InitRemove ==
    /\ pc = "tree"
    /\ parsed \in RemovePrograms
    /\ program = parsed
    /\ target_ports = {} /\ frames = {}
    /\ unused = {} /\ declared = {} /\ remove_assignment = {} /\ passes = 0
    /\ NoMangleState
    /\ NoMatchState
    /\ NoRestState

InitSplit ==
    /\ pc = "parsed"
    /\ parsed \in SplitPrograms
    /\ program = parsed
    /\ target_ports \in TargetPorts
    /\ frames = {}
    /\ unused = {} /\ declared = {} /\ remove_assignment = {} /\ passes = 0
    /\ NoMangleState
    /\ NoMatchState
    /\ NoRestState

\* CoreSplitter(ports).visit_Program(program): the tree is replaced by the
\* one the splitter returns, unless TransformError is raised
CoreSplit ==
    /\ pc = "parsed"
    /\ LET result == CoreSplitter_visit_list(program, target_ports, frames, "GLOBAL")
       IN  /\ frames' = result.frames
           /\ program' = IF result.error THEN program ELSE result.nodes
           /\ pc' = IF result.error THEN "error" ELSE "split"
    /\ UNCHANGED <<parsed, target_ports, unused, declared, remove_assignment, passes>>
    /\ UNCHANGED <<mangleVars, matchVars, restVars>>

\* RemoveUnused(program): a new instance determines unused and declared and
\* transforms the tree; ord is the order in which the sets yield their strings
RemoveUnused ==
    /\ pc \in {"tree", "split", "removed"}
    /\ passes < MaxPasses
    /\ \E ord \in Orders(DefinitionNames(program)) :
       \E determined \in {DetermineUnused(program, {}, {}, ord)} :
       \E result \in {RemoveUnused_visit_list(program, determined.unused,
                          determined.declared, {}, ord)} :
            /\ unused' = determined.unused
            /\ declared' = determined.declared
            /\ program' = result.nodes
            /\ remove_assignment' = result.remove_assignment
    /\ passes' = passes + 1
    /\ pc' = "removed"
    /\ UNCHANGED <<parsed, target_ports, frames>>
    /\ UNCHANGED <<mangleVars, matchVars, restVars>>

NextRemove == RemoveUnused

SpecRemove == InitRemove /\ [][NextRemove]_vars

NextSplit == CoreSplit \/ RemoveUnused

SpecSplit == InitSplit /\ [][NextSplit]_vars

(***************************************************************************)
(* Claims about FunctionSignature.match                                    *)
(***************************************************************************)
\* a definition that conflicts with the call: a numeric-literal parameter
\* that differs from the call's argument at its position, or a physical
\* qubit that differs from the call's qubit at its position
LiteralConflict(c, d) ==
    \E i \in 1..Min(Len(c.params), Len(d.params)) :
        is_number(d.params[i]) /\ d.params[i] # c.params[i]

QubitConflict(c, d) ==
    \E i \in 1..Min(Len(c.qubits), Len(d.qubits)) :
        Contains(d.qubits[i], DOLLAR) /\ d.qubits[i] # c.qubits[i]

\* C2: a candidate with a mismatched numeric literal or a mismatched
\* physical qubit is never in the result of FunctionSignature.match,
\* whatever credit its other positions contribute.
C2_ConflictNeverMatched ==
    pc = "matched" =>
        \A i \in 1..Len(candidates) :
            (LiteralConflict(call, candidates[i]) \/ QubitConflict(call, candidates[i]))
                => mangle(candidates[i]) \notin Range(best_matched_symbols)

C3_WitnessEmpty ==
    /\ pc = "matched"
    /\ Len(match_dict) > 0
    /\ best_matched_symbols = <<>>

\* C4: every returned candidate has exactly the call's name, number of
\* parameters and number of qubits.
C4_ExactHardFilters ==
    pc = "matched" =>
        \A i \in 1..Len(candidates) :
            mangle(candidates[i]) \in Range(best_matched_symbols)
                => /\ candidates[i].name = call.name
                   /\ Len(candidates[i].params) = Len(call.params)
                   /\ Len(candidates[i].qubits) = Len(call.qubits)

(***************************************************************************)
(* Claims about mangling                                                   *)
(***************************************************************************)
\* C5: demangling sig.mangle() recovers name, params, qubits and return_type.
C5_RoundTrip ==
    pc \in {"demangled", "both"} =>
        /\ demangled.name = sig.name
        /\ demangled.params = sig.params
        /\ demangled.qubits = sig.qubits
        /\ demangled.return_type = sig.return_type

\* C6: two signatures that differ in a field never mangle to the same string.
C6_Injective ==
    (pc = "both" /\ sig # other) => mangled # mangled_other

(***************************************************************************)
(* Reading trees                                                           *)
(***************************************************************************)
\* every statement of a tree, those inside bodies included, in source order
RECURSIVE Statements(_)
Statements(nodes) ==
    IF Len(nodes) = 0 THEN <<>>
    ELSE <<Head(nodes)>> \o Statements(Head(nodes).body) \o Statements(Tail(nodes))

\* every function call of an expression
RECURSIVE CallsOfExpression(_)
CallsOfExpression(e) ==
    IF e.kind # "FunctionCall" THEN {}
    ELSE {e} \cup UNION {CallsOfExpression(e.arguments[i]) : i \in 1..Len(e.arguments)}

\* every function call of a tree
FunctionCalls(nodes) ==
    LET all == Statements(nodes)
    IN  UNION {CallsOfExpression(all[i].expression) : i \in 1..Len(all)}

IsDefinition(node) == node.kind = "CalibrationDefinition"
IsQuantumCall(node) ==
    node.kind \in {"QuantumGate", "QuantumMeasurementStatement", "QuantumReset"}

\* the calibration definitions of a tree without their bodies and return types
Heads(nodes) ==
    LET all == SelectSeq(Statements(nodes), IsDefinition)
    IN  [i \in 1..Len(all) |->
            [name |-> all[i].name, arguments |-> all[i].arguments, qubits |-> all[i].qubits]]

HeadOf(node) == [name |-> node.name, arguments |-> node.arguments, qubits |-> node.qubits]

\* the call resolves to the definition and to no other definition of the tree
Resolves(c, d, nodes) ==
    LET names == DefinitionNames(nodes)
        ord == CHOOSE o \in Orders(names) : TRUE
    IN  Match(ManglerSignature(c), ord) = <<mangle(ManglerSignature(d))>>

\* the body holds a statement RemoveUnused returns unchanged
LastingBody(d) ==
    \E i \in 1..Len(d.body) : d.body[i].kind \in {"ExpressionStatement", "ReturnStatement"}

(***************************************************************************)
(* Claims about RemoveUnused                                               *)
(***************************************************************************)
\* C1: a pass of RemoveUnused keeps every calibration definition that a later
\* call of the program uses and whose body is not empty, whatever other
\* definitions the program declares.
C1_UsedDefinitionKept ==
    (pc = "removed" /\ passes = 1) =>
        \A i \in 1..Len(parsed) :
            (/\ IsDefinition(parsed[i])
             /\ LastingBody(parsed[i])
             /\ \E j \in (i + 1)..Len(parsed) :
                    IsQuantumCall(parsed[j]) /\ Resolves(parsed[j], parsed[i], parsed))
                => HeadOf(parsed[i]) \in Range(Heads(program))

\* C7: once RemoveUnused has run twice, a third run leaves the tree as it is.
C7_ThirdPassChangesNothing ==
    [][(passes = 2 /\ passes' = 3) => program' = program]_vars

\* C8: a calibration definition named measure is never removed by
\* RemoveUnused: the definitions named measure of the tree handed to the
\* passes are those of the tree after any number of passes.
C8_MeasureNeverRemoved ==
    pc = "removed" =>
        LET measure(h) == h.name = MeasureName
        IN  SelectSeq(Heads(program), measure) = SelectSeq(Heads(parsed), measure)

\* C8 witness: after a pass the tree holds a definition named measure that
\* no call used and whose body is empty
C8_Witness ==
    /\ pc = "removed"
    /\ \E i \in 1..Len(program) :
        /\ IsDefinition(program[i])
        /\ program[i].name = MeasureName
        /\ Len(program[i].body) = 0
        /\ mangle(ManglerSignature(program[i])) \in unused

(***************************************************************************)
(* Claims about CoreSplitter                                               *)
(***************************************************************************)
\* C9: after CoreSplitter every remaining call of a pulse function has a
\* frame argument that is in frames.
C9_PulseCallsOnKeptFrames ==
    pc = "split" =>
        \A e \in FunctionCalls(program) :
            e.name \in PulseFunctions
                => Len(e.arguments) > 0 /\ e.arguments[1].name \in frames

\* the same for the calls the pattern of visit_FunctionCall recognises, those
\* with exactly two arguments: every remaining one has its first argument in
\* frames
BinaryPulseCallsOnKeptFrames ==
    pc = "split" =>
        \A e \in FunctionCalls(program) :
            (e.name \in PulseFunctions /\ Len(e.arguments) = 2)
                => e.arguments[1].name \in frames

IsNewFrame(node) ==
    /\ node.kind = "ClassicalDeclaration" /\ node.type = "FrameType"
    /\ node.expression.kind = "FunctionCall" /\ node.expression.name = NewFrame
    /\ Len(node.expression.arguments) > 0

IsPort(node) == node.kind = "ClassicalDeclaration" /\ node.type = "PortType"

\* C10: a frame declaration survives CoreSplitter exactly when the port
\* argument of its newframe call is a target port, a port declaration
\* exactly when its name is a target port, and the name of every kept frame
\* is in frames.
C10_DeclarationsOfTargetPorts ==
    pc = "split" =>
        LET on_target(node) == node.expression.arguments[1].name \in target_ports
            is_target(node) == node.name \in target_ports
            kept_frames == SelectSeq(Statements(program), IsNewFrame)
        IN  /\ kept_frames = SelectSeq(SelectSeq(Statements(parsed), IsNewFrame), on_target)
            /\ SelectSeq(Statements(program), IsPort)
                  = SelectSeq(SelectSeq(Statements(parsed), IsPort), is_target)
            /\ \A i \in 1..Len(kept_frames) : kept_frames[i].name \in frames

\* C10 witness: the splitter kept a frame declaration, removed another and
\* met a port declaration
C10_Witness ==
    /\ pc = "split"
    /\ Len(SelectSeq(Statements(program), IsNewFrame)) > 0
    /\ Len(SelectSeq(Statements(program), IsNewFrame))
          < Len(SelectSeq(Statements(parsed), IsNewFrame))
    /\ Len(SelectSeq(Statements(parsed), IsPort)) > 0

(***************************************************************************)
(* Programs walked by the interpreters.  Literals carry their value.       *)
(***************************************************************************)
Literal(kind, value) ==
    [kind |-> kind, type |-> None, name |-> None, arguments |-> <<>>, value |-> value]

IntegerLiteralOf(value) == Literal("IntegerLiteral", value)
DurationLiteral(value) == Literal("DurationLiteral", value)
BooleanLiteral(value) == Literal("BooleanLiteral", value)
\* an array literal of integer literals, held as the values of its elements
ArrayLiteral(values) == Literal("ArrayLiteral", values)
UnaryMinus(expression) == Expr("UnaryExpression", None, <<"-">>, <<expression>>)
DiscreteSet(values) == Expr("DiscreteSet", None, None, values)
RangeDefinition(start, end, step) == Expr("RangeDefinition", None, None, <<start, end, step>>)

ForInLoop(identifier, set_declaration, block) ==
    Node("ForInLoop", "", identifier, <<>>, <<>>, None, block, None, set_declaration)
WhileLoop(while_condition, block) ==
    Node("WhileLoop", "", None, <<>>, <<>>, None, block, None, while_condition)
ClassicalAssignment(lvalue, rvalue) ==
    Node("ClassicalAssignment", "", lvalue, <<>>, <<>>, None, <<>>, None, rvalue)

(***************************************************************************)
(* Values, activation records and the call stack                           *)
(***************************************************************************)
IntValue(n) == [kind |-> "int", n |-> n]
BoolValue(b) == [kind |-> "bool", n |-> IF b THEN 1 ELSE 0]
ArrayValue(length) == [kind |-> "ndarray", n |-> length]
NoneValue == [kind |-> "None", n |-> 0]

\* a dict with no key
EmptyDict == [k \in {} |-> NoneValue]

\* dict[key] = value
SetItem(dict, key, value) ==
    [k \in DOMAIN dict \cup {key} |-> IF k = key THEN value ELSE dict[k]]

\* dict.update(members)
Update(dict, members) ==
    [k \in DOMAIN dict \cup DOMAIN members |-> IF k \in DOMAIN members THEN members[k] ELSE dict[k]]

\* ActivationRecord(name, ar_type, nesting_level); shared tells that members
\* is the dict calibration_scope itself (record.members = self.calibration_scope)
ActivationRecord(name, ar_type, nesting_level, shared) ==
    [name |-> name, type |-> ar_type, nesting_level |-> nesting_level,
     members |-> EmptyDict, shared |-> shared]

\* record.members
Members(record, scope) == IF record.shared THEN scope ELSE record.members

\* CallStack.push, CallStack.pop, CallStack.peek
push(records, activation_record) == Append(records, activation_record)
pop(records) == SubSeq(records, 1, Len(records) - 1)
peek(records) == records[Len(records)]

\* CallStack.down_stack: the position of the topmost record that binds name,
\* 0 when none does and KeyError is raised
down_stack(records, scope, name) ==
    LET binds == {i \in 1..Len(records) : name \in DOMAIN Members(records[i], scope)}
    IN  IF binds = {} THEN 0 ELSE CHOOSE i \in binds : \A j \in binds : j <= i

\* mutant: the end of the range is included
range_inclusive(start, end, step) ==
    LET count == IF step > 0
                 THEN (IF end >= start THEN (end - start) \div step + 1 ELSE 0)
                 ELSE (IF end <= start THEN (start - end) \div (0 - step) + 1 ELSE 0)
    IN  [k \in 1..count |-> start + (k - 1) * step]

\* range(start, end, step) for a step that is not 0
range(start, end, step) ==
    LET count == IF step > 0
                 THEN (IF end > start THEN (end - start + step - 1) \div step ELSE 0)
                 ELSE (IF end < start THEN (start - end - step - 1) \div (0 - step) ELSE 0)
    IN  [k \in 1..count |-> start + (k - 1) * step]

(***************************************************************************)
(* Interpreter: expressions                                                *)
(***************************************************************************)
NoError == [code |-> "", message |-> <<>>]
Raised(code) == [code |-> code, message |-> <<>>]

\* unary_ops["-"]
UnaryOp(operand) ==
    [value |-> IntValue(0 - operand.value.n), error |-> operand.error]

\* self.visit(expression) of the Interpreter: the value, or the error raised.
\* visit_Identifier turns the KeyError of down_stack into ID_NOT_FOUND.
RECURSIVE Eval(_, _, _)
Eval(e, records, scope) ==
    CASE e.kind = "Identifier" ->
            IF down_stack(records, scope, e.name) = 0
            THEN [value |-> NoneValue, error |-> "ID_NOT_FOUND"]
            ELSE [value |-> Members(records[down_stack(records, scope, e.name)], scope)[e.name],
                  error |-> ""]
      [] e.kind \in {"IntegerLiteral", "DurationLiteral"} ->
            [value |-> IntValue(e.value), error |-> ""]
      [] e.kind = "BooleanLiteral" -> [value |-> BoolValue(e.value), error |-> ""]
      [] e.kind = "ArrayLiteral" -> [value |-> ArrayValue(Len(e.value)), error |-> ""]
      [] e.kind = "UnaryExpression" -> UnaryOp(Eval(e.arguments[1], records, scope))
      [] OTHER -> [value |-> NoneValue, error |-> ""]

\* visit_DiscreteSet: set(self.visit(i) for i in node.values), and the
\* error the first element that raises one raises
visit_DiscreteSet(e, records, scope) ==
    {Eval(e.arguments[i], records, scope).value.n : i \in DOMAIN e.arguments}
RECURSIVE DiscreteSetError(_, _, _)
DiscreteSetError(values, records, scope) ==
    IF values = <<>> THEN ""
    ELSE IF Eval(Head(values), records, scope).error # ""
    THEN Eval(Head(values), records, scope).error
    ELSE DiscreteSetError(Tail(values), records, scope)

\* the k-th element an iteration over a Python set of integers in 0..7
\* yields: they come in ascending order
Yielded(S, k) == CHOOSE x \in S : Cardinality({y \in S : y < x}) = k - 1

\* start, end, step = ... unpacks a set of exactly three elements
Unpacks(e, records, scope) ==
    e.kind = "RangeDefinition" \/ Cardinality(visit_DiscreteSet(e, records, scope)) = 3

\* what start, end, step = self.visit(node.set_declaration) binds.
\* visit_RangeDefinition: (start, end, step) with the defaults 0, None and 1
Unpacked(e, records, scope, k) ==
    IF Unpacks(e, records, scope)
    THEN [value |-> IntValue(Yielded(visit_DiscreteSet(e, records, scope), k)),
          error |-> DiscreteSetError(e.arguments, records, scope)]
    ELSE [value |-> NoneValue, error |-> DiscreteSetError(e.arguments, records, scope)]
RangeStart(e, records, scope) ==
    IF e.kind # "RangeDefinition" THEN Unpacked(e, records, scope, 1)
    ELSE IF e.arguments[1] = NoExpr THEN [value |-> IntValue(0), error |-> ""]
    ELSE Eval(e.arguments[1], records, scope)
RangeEnd(e, records, scope) ==
    IF e.kind # "RangeDefinition" THEN Unpacked(e, records, scope, 2)
    ELSE IF e.arguments[2] = NoExpr THEN [value |-> NoneValue, error |-> ""]
    ELSE Eval(e.arguments[2], records, scope)
RangeStep(e, records, scope) ==
    IF e.kind # "RangeDefinition" THEN Unpacked(e, records, scope, 3)
    ELSE IF e.arguments[3] = NoExpr THEN [value |-> IntValue(1), error |-> ""]
    ELSE Eval(e.arguments[3], records, scope)

\* the first error of three evaluations made in this order
FirstError(a, b, c) ==
    IF a.error # "" THEN a.error ELSE IF b.error # "" THEN b.error ELSE c.error

(***************************************************************************)
(* The walk of a visitor over a program.  todo holds what is left to do,   *)
(* innermost first: the nodes still to visit, the exits of the activation  *)
(* record scopes that are open (the finally of ar_context_manager), the    *)
(* bindings of a loop variable, and what follows a with-block.  self tells *)
(* the object whose visit method is called.                                *)
(***************************************************************************)
Item(op, self, node, name, value) ==
    [op |-> op, self |-> self, node |-> node, name |-> name, value |-> value]

VisitItem(self, node) == Item("visit", self, node, None, NoneValue)
SuperItem(self, node) == Item("super", self, node, None, NoneValue)
PrintItem(node) == Item("print", "SEQCPrinter", node, None, NoneValue)
BindItem(self, name, value) == Item("bind", self, NoExpr, name, value)
WhileItem(self, node) == Item("while", self, node, None, NoneValue)
ExitItem == Item("exit", "", NoExpr, None, NoneValue)
UpdateItem == Item("update", "", NoExpr, None, NoneValue)
ReportItem == Item("report", "", NoExpr, None, NoneValue)

\* for statement in block: self.visit(statement)
Visits(self, block) == [i \in 1..Len(block) |-> VisitItem(self, block[i])]
Prints(block) == [i \in 1..Len(block) |-> PrintItem(block[i])]

\* for value in values: activation_record[name] = value; visit the block
LoopItems(self, name, values, block) ==
    [k \in 1..(Len(values) * (Len(block) + 1)) |->
        IF (k - 1) % (Len(block) + 1) = 0
        THEN BindItem(self, name, values[(k - 1) \div (Len(block) + 1) + 1])
        ELSE VisitItem(self, block[(k - 1) % (Len(block) + 1)])]

\* mutant: an error leaves the with-blocks without running their finally
UnwindWithoutFinally(items) == SelectSeq(items, LAMBDA item : FALSE)

\* an error propagates: nothing catches it, and of what was left to do only
\* the finally of every open context manager runs
Unwind(items) == SelectSeq(items, LAMBDA item : item.op \in {"exit", "restore"})

\* the class whose method visits a node of this kind for self
Handler(self, kind) ==
    IF self = "TimingConstraints"
       /\ kind \notin {"DelayInstruction", "ForInLoop", "ExpressionStatement"}
    THEN "Interpreter" ELSE self

\* the next thing to do is to visit a node of this kind with a method of class
Visiting(class, kind) ==
    /\ pc = "walk"
    /\ Len(todo) > 0
    /\ Head(todo).op = "visit"
    /\ Head(todo).node.kind = kind
    /\ Handler(Head(todo).self, kind) = class

\* activation_record[name] = value, for the record at place i of the stack
Store(records, scope, i, name, value) ==
    IF records[i].shared
    THEN [records |-> records, scope |-> SetItem(scope, name, value)]
    ELSE [records |-> [records EXCEPT ![i].members = SetItem(@, name, value)],
          scope |-> scope]

ExecuteTableEntry ==
    <<"e", "x", "e", "c", "u", "t", "e", "T", "a", "b", "l", "e", "E", "n", "t", "r", "y">>

\* CallStack.nesting_level
nesting_level(records) == peek(records).nesting_level

(***************************************************************************)
(* Interpreter                                                             *)
(***************************************************************************)
walkVars == <<visitor, statements, semVars, durationVars, frameVars, fieldVars>>
defcalVars == <<defcal_names, defcal_nodes>>

\* raise: the error is kept and the open scopes are left
Raise(code, rest) ==
    /\ error' = Raised(code)
    /\ todo' = Unwind(rest)

\* ar_context_manager, the finally: self.call_stack.pop().  It runs when the
\* with-block ends and when an error leaves it.
ar_context_manager_exit ==
    /\ pc = "walk"
    /\ Len(todo) > 0
    /\ Head(todo).op = "exit"
    /\ call_stack' = pop(call_stack)
    /\ todo' = Tail(todo)
    /\ UNCHANGED <<pc, mangleVars, matchVars, passVars, walkVars, calibration_scope,
                   defcalVars, flagged_wfs, error, trace>>

\* Interpreter.visit_Program
Interpreter_visit_Program ==
    /\ pc = "walk"
    /\ Len(todo) > 0
    /\ Head(todo).op = "program"
    /\ visitor.class = "Interpreter"
    /\ call_stack' = push(call_stack, ActivationRecord("main", "PROGRAM", 1, FALSE))
    /\ todo' = Visits("Interpreter", statements) \o <<ExitItem>>
    /\ UNCHANGED <<pc, mangleVars, matchVars, passVars, walkVars, calibration_scope,
                   defcalVars, flagged_wfs, error, trace>>

\* Interpreter.visit_ClassicalDeclaration: a declaration of a waveform or of a
\* classical variable, activation_record[name] = the initial value or None
Interpreter_visit_ClassicalDeclaration ==
    /\ Visiting("Interpreter", "ClassicalDeclaration")
    /\ \E node \in {Head(todo).node} :
       \E init \in {IF node.expression = NoExpr THEN [value |-> NoneValue, error |-> ""]
                    ELSE Eval(node.expression, call_stack, calibration_scope)} :
          IF init.error # ""
          THEN /\ Raise(init.error, Tail(todo))
               /\ UNCHANGED <<call_stack, calibration_scope>>
          ELSE \E stored \in {Store(call_stack, calibration_scope, Len(call_stack),
                                    node.name, init.value)} :
                  /\ call_stack' = stored.records
                  /\ calibration_scope' = stored.scope
                  /\ todo' = Tail(todo)
                  /\ UNCHANGED error
    /\ UNCHANGED <<pc, mangleVars, matchVars, passVars, walkVars, defcalVars,
                   flagged_wfs, trace>>

\* Interpreter.visit_ClassicalAssignment with an Identifier as lvalue: the
\* KeyError of down_stack is not caught
Interpreter_visit_ClassicalAssignment ==
    /\ Visiting("Interpreter", "ClassicalAssignment")
    /\ \E node \in {Head(todo).node} :
       \E place \in {down_stack(call_stack, calibration_scope, node.name)} :
       \E rvalue \in {Eval(node.expression, call_stack, calibration_scope)} :
          IF place = 0 \/ rvalue.error # ""
          THEN /\ Raise(IF place = 0 THEN "KeyError" ELSE rvalue.error, Tail(todo))
               /\ UNCHANGED <<call_stack, calibration_scope, trace>>
          ELSE \E stored \in {Store(call_stack, calibration_scope, place,
                                    node.name, rvalue.value)} :
                  /\ call_stack' = stored.records
                  /\ calibration_scope' = stored.scope
                  /\ trace' = Append(trace, [event |-> "assign", name |-> node.name,
                                             value |-> rvalue.value])
                  /\ todo' = Tail(todo)
                  /\ UNCHANGED error
    /\ UNCHANGED <<pc, mangleVars, matchVars, passVars, walkVars, defcalVars, flagged_wfs>>

\* Interpreter.visit_ReturnStatement: the expression is visited
Interpreter_visit_ReturnStatement ==
    /\ Visiting("Interpreter", "ReturnStatement")
    /\ \E returned \in {Eval(Head(todo).node.expression, call_stack, calibration_scope)} :
          IF returned.error # "" THEN Raise(returned.error, Tail(todo))
          ELSE todo' = Tail(todo) /\ UNCHANGED error
    /\ UNCHANGED <<pc, mangleVars, matchVars, passVars, walkVars, call_stack,
                   calibration_scope, defcalVars, flagged_wfs, trace>>

\* Interpreter.visit_DelayInstruction: passes over delay instructions
Interpreter_visit_DelayInstruction ==
    /\ Visiting("Interpreter", "DelayInstruction")
    /\ todo' = Tail(todo)
    /\ UNCHANGED <<pc, mangleVars, matchVars, passVars, walkVars, call_stack,
                   calibration_scope, defcalVars, flagged_wfs, error, trace>>

\* Interpreter.visit_FunctionCall for play, the captures and executeTableEntry
\* (visit_play and pass): the record of the call is pushed and nothing is done;
\* it is also what super().visit_FunctionCall does for TimingConstraints
Interpreter_visit_FunctionCall ==
    /\ \/ Visiting("Interpreter", "ExpressionStatement")
       \/ pc = "walk" /\ Len(todo) > 0 /\ Head(todo).op = "super"
    /\ Head(todo).node.expression.name \in PulseFunctions \cup {ExecuteTableEntry}
    /\ call_stack' = push(call_stack,
                          ActivationRecord(Head(todo).node.expression.name, "SUBROUTINE",
                                           nesting_level(call_stack) + 1, FALSE))
    /\ todo' = <<ExitItem>> \o Tail(todo)
    /\ UNCHANGED <<pc, mangleVars, matchVars, passVars, walkVars, calibration_scope,
                   defcalVars, flagged_wfs, error, trace>>

\* Interpreter.visit_CalibrationDefinition
Interpreter_visit_CalibrationDefinition ==
    /\ Visiting("Interpreter", "CalibrationDefinition")
    /\ \E mangled_name \in {mangle(ManglerSignature(Head(todo).node))} :
          /\ defcal_names' = Append(defcal_names, mangled_name)
          /\ defcal_nodes' = SetItem(defcal_nodes, mangled_name, Head(todo).node)
    /\ todo' = Tail(todo)
    /\ UNCHANGED <<pc, mangleVars, matchVars, passVars, walkVars, call_stack,
                   calibration_scope, flagged_wfs, error, trace>>

\* activation_record[name] = value at the head of an iteration of a for loop
Interpreter_ForInLoop_bind ==
    /\ pc = "walk"
    /\ Len(todo) > 0
    /\ Head(todo).op = "bind"
    /\ \E stored \in {Store(call_stack, calibration_scope, Len(call_stack),
                            Head(todo).name, Head(todo).value)} :
          /\ call_stack' = stored.records
          /\ calibration_scope' = stored.scope
    /\ trace' = Append(trace, [event |-> "iteration", name |-> Head(todo).name,
                               value |-> Head(todo).value])
    /\ todo' = Tail(todo)
    /\ UNCHANGED <<pc, mangleVars, matchVars, passVars, walkVars, defcalVars,
                   flagged_wfs, error>>

\* the record of a loop
LoopRecord(name, records) ==
    ActivationRecord(name, "LOOP", nesting_level(records) + 1, FALSE)

\* Interpreter.visit_ForInLoop.  A DiscreteSet of other than three distinct
\* values cannot be unpacked into start, end, step, and range() refuses a
\* step of 0: both are a ValueError of Python.  A DiscreteSet of three
\* distinct values is unpacked and iterated like a range.
Interpreter_visit_ForInLoop ==
    /\ Visiting("Interpreter", "ForInLoop")
    /\ IF ~visitor.visit_loops
       THEN /\ todo' = Tail(todo)
            /\ UNCHANGED <<call_stack, error>>
       ELSE \E node \in {Head(todo).node} :
            \E records \in {push(call_stack, LoopRecord("for_loop", call_stack))} :
            \E start \in {RangeStart(node.expression, records, calibration_scope)} :
            \E end \in {RangeEnd(node.expression, records, calibration_scope)} :
            \E step \in {RangeStep(node.expression, records, calibration_scope)} :
               CASE FirstError(start, end, step) # "" ->
                        /\ call_stack' = records
                        /\ Raise(FirstError(start, end, step), <<ExitItem>> \o Tail(todo))
                 [] FirstError(start, end, step) = ""
                    /\ ~Unpacks(node.expression, records, calibration_scope) ->
                        /\ call_stack' = records
                        /\ Raise("ValueError", <<ExitItem>> \o Tail(todo))
                 [] FirstError(start, end, step) = ""
                    /\ Unpacks(node.expression, records, calibration_scope)
                    /\ end.value = NoneValue ->
                        /\ call_stack' = records
                        /\ Raise("UNHANDLED", <<ExitItem>> \o Tail(todo))
                 [] FirstError(start, end, step) = ""
                    /\ Unpacks(node.expression, records, calibration_scope)
                    /\ end.value # NoneValue
                    /\ step.value.n = 0 ->
                        /\ call_stack' = Store(records, calibration_scope, Len(records),
                                               node.name, start.value).records
                        /\ Raise("ValueError", <<ExitItem>> \o Tail(todo))
                 [] OTHER ->
                        /\ call_stack' = Store(records, calibration_scope, Len(records),
                                               node.name, start.value).records
                        /\ todo' = LoopItems("Interpreter", node.name,
                                             [k \in DOMAIN range(start.value.n, end.value.n, step.value.n)
                                                 |-> IntValue(range(start.value.n, end.value.n, step.value.n)[k])],
                                             node.body)
                                   \o <<ExitItem>> \o Tail(todo)
                        /\ UNCHANGED error
    /\ UNCHANGED <<pc, mangleVars, matchVars, passVars, walkVars, calibration_scope,
                   defcalVars, flagged_wfs, trace>>

\* Interpreter.visit_WhileLoop
Interpreter_visit_WhileLoop ==
    /\ Visiting("Interpreter", "WhileLoop")
    /\ IF ~visitor.visit_loops
       THEN /\ todo' = Tail(todo)
            /\ UNCHANGED call_stack
       ELSE /\ call_stack' = push(call_stack, LoopRecord("while loop", call_stack))
            /\ todo' = <<WhileItem(Head(todo).self, Head(todo).node), ExitItem>> \o Tail(todo)
    /\ UNCHANGED <<pc, mangleVars, matchVars, passVars, walkVars, calibration_scope,
                   defcalVars, flagged_wfs, error, trace>>

\* while self.visit(node.while_condition): visit the block
Interpreter_WhileLoop_condition ==
    /\ pc = "walk"
    /\ Len(todo) > 0
    /\ Head(todo).op = "while"
    /\ \E condition \in {Eval(Head(todo).node.expression, call_stack, calibration_scope)} :
          IF condition.error # "" THEN Raise(condition.error, Tail(todo))
          ELSE /\ todo' = IF condition.value.n # 0
                          THEN Visits(Head(todo).self, Head(todo).node.body) \o todo
                          ELSE Tail(todo)
               /\ UNCHANGED error
    /\ UNCHANGED <<pc, mangleVars, matchVars, passVars, walkVars, call_stack,
                   calibration_scope, defcalVars, flagged_wfs, trace>>

\* the statements of a body up to its first ReturnStatement, which returns
RECURSIVE UntilReturn(_)
UntilReturn(body) ==
    IF Len(body) = 0 THEN <<>>
    ELSE IF Head(body).kind = "ReturnStatement" THEN <<Head(body)>>
    ELSE <<Head(body)>> \o UntilReturn(Tail(body))

\* the record named calibration, whose members are self.calibration_scope
CalibrationRecord(name, level) == ActivationRecord(name, "CALIBRATION", level, TRUE)

\* for arg, val in zip(node.arguments, args): the ClassicalArguments are bound
BindArguments(members, arguments, args) ==
    LET bound == {i \in 1..Len(arguments) :
                    i <= Len(args) /\ arguments[i].kind = "ClassicalArgument"}
        names == {arguments[i].name : i \in bound}
        last(name) == CHOOSE i \in bound :
                        arguments[i].name = name
                        /\ \A j \in bound : arguments[j].name = name => j <= i
    IN  [k \in DOMAIN members \cup names |->
            IF k \in names THEN args[last(k)].value ELSE members[k]]

\* Interpreter.quantum_gate_helper for a QuantumGate.  [0] of an empty match
\* is an IndexError of Python.
Interpreter_visit_QuantumGate ==
    /\ Visiting("Interpreter", "QuantumGate")
    /\ \E node \in {Head(todo).node} :
       \E level \in {nesting_level(call_stack)} :
       \E records \in {push(push(call_stack, CalibrationRecord("calibration", level + 1)),
                            ActivationRecord("defcal", "DEFCAL", level + 2, FALSE))} :
       \E matched \in {Match(ManglerSignature(node), defcal_names)} :
       \E args \in {[i \in 1..Len(node.arguments) |->
                        Eval(node.arguments[i], records, calibration_scope)]} :
          CASE Len(matched) = 0 ->
                   /\ call_stack' = records
                   /\ Raise("IndexError", <<ExitItem, ExitItem>> \o Tail(todo))
            [] Len(matched) > 0 /\ \E i \in 1..Len(args) : args[i].error # "" ->
                   /\ call_stack' = records
                   /\ Raise(args[CHOOSE i \in 1..Len(args) :
                                   args[i].error # ""
                                   /\ \A j \in 1..(i - 1) : args[j].error = ""].error,
                            <<ExitItem, ExitItem>> \o Tail(todo))
            [] OTHER ->
                   /\ call_stack' = [records EXCEPT ![Len(records)].members =
                                        BindArguments(@, defcal_nodes[matched[1]].arguments, args)]
                   /\ todo' = Visits(Head(todo).self, UntilReturn(defcal_nodes[matched[1]].body))
                              \o <<ExitItem, ExitItem>> \o Tail(todo)
                   /\ UNCHANGED error
    /\ UNCHANGED <<pc, mangleVars, matchVars, passVars, walkVars, calibration_scope,
                   defcalVars, flagged_wfs, trace>>

\* Interpreter.visit_CalibrationStatement
Interpreter_visit_CalibrationStatement ==
    /\ Visiting("Interpreter", "CalibrationStatement")
    /\ \E level \in {nesting_level(call_stack)} :
          call_stack' = push(push(call_stack, CalibrationRecord("outer_calibration", level + 1)),
                             ActivationRecord("new_calibration", "CALIBRATION", level + 2, FALSE))
    /\ todo' = Visits(Head(todo).self, Head(todo).node.body)
               \o <<UpdateItem, ExitItem, ExitItem>> \o Tail(todo)
    /\ UNCHANGED <<pc, mangleVars, matchVars, passVars, walkVars, calibration_scope,
                   defcalVars, flagged_wfs, error, trace>>

\* self.calibration_scope.update(self.call_stack.peek().members)
Interpreter_CalibrationStatement_update ==
    /\ pc = "walk"
    /\ Len(todo) > 0
    /\ Head(todo).op = "update"
    /\ calibration_scope' = Update(calibration_scope, Members(peek(call_stack), calibration_scope))
    /\ todo' = Tail(todo)
    /\ UNCHANGED <<pc, mangleVars, matchVars, passVars, walkVars, call_stack,
                   defcalVars, flagged_wfs, error, trace>>

(***************************************************************************)
(* TimingConstraints, a subclass of Interpreter                            *)
(***************************************************************************)
minimum_length == 32
granularity == 16

\* mutant: the length must exceed minimum_length
check_timing_constraints_strict(dur_val) ==
    IF dur_val.kind = "None" THEN [valid |-> TRUE, length |-> 0 - 1]
    ELSE [valid |-> dur_val.n > minimum_length /\ dur_val.n % granularity = 0,
          length |-> dur_val.n]

\* TimingConstraints.check_timing_constraints, for the value of self.visit(node):
\* an array counts by its length, None is valid with the length -1
check_timing_constraints(dur_val) ==
    IF dur_val.kind = "None" THEN [valid |-> TRUE, length |-> 0 - 1]
    ELSE [valid |-> dur_val.n >= minimum_length /\ dur_val.n % granularity = 0,
          length |-> dur_val.n]

\* TimingConstraints.visit_Program: after the with-block, the report
TimingConstraints_visit_Program ==
    /\ pc = "walk"
    /\ Len(todo) > 0
    /\ Head(todo).op = "program"
    /\ visitor.class = "TimingConstraints"
    /\ call_stack' = push(call_stack, ActivationRecord("main", "PROGRAM", 1, FALSE))
    /\ todo' = Visits("TimingConstraints", statements) \o <<ExitItem, ReportItem>>
    /\ UNCHANGED <<pc, mangleVars, matchVars, passVars, walkVars, calibration_scope,
                   defcalVars, flagged_wfs, error, trace>>

\* mutant: the report names the first flagged waveform only
TimingConstraints_visit_Program_report_first ==
    /\ pc = "walk"
    /\ Len(todo) > 0
    /\ Head(todo).op = "report"
    /\ todo' = Tail(todo)
    /\ error' = IF Len(flagged_wfs) > 0
                THEN [code |-> "INVALID_WAVEFORM", message |-> <<flagged_wfs[1]>>]
                ELSE error
    /\ UNCHANGED <<pc, mangleVars, matchVars, passVars, walkVars, call_stack,
                   calibration_scope, defcalVars, flagged_wfs, trace>>

\* if self.flagged_wfs: raise Error(ErrorCode.INVALID_WAVEFORM, message), where
\* construct_warning_message lists every entry of flagged_wfs
TimingConstraints_visit_Program_report ==
    /\ pc = "walk"
    /\ Len(todo) > 0
    /\ Head(todo).op = "report"
    /\ todo' = Tail(todo)
    /\ error' = IF Len(flagged_wfs) > 0
                THEN [code |-> "INVALID_WAVEFORM", message |-> flagged_wfs]
                ELSE error
    /\ UNCHANGED <<pc, mangleVars, matchVars, passVars, walkVars, call_stack,
                   calibration_scope, defcalVars, flagged_wfs, trace>>

\* TimingConstraints.visit_DelayInstruction
TimingConstraints_visit_DelayInstruction ==
    /\ Visiting("TimingConstraints", "DelayInstruction")
    /\ \E duration \in {Eval(Head(todo).node.expression, call_stack, calibration_scope)} :
       \E checked \in {check_timing_constraints(duration.value)} :
          IF duration.error # ""
          THEN Raise(duration.error, Tail(todo)) /\ UNCHANGED flagged_wfs
          ELSE /\ flagged_wfs' = IF checked.valid THEN flagged_wfs
                                 ELSE Append(flagged_wfs, [wfm |-> Head(todo).node.expression,
                                                           length |-> checked.length])
               /\ todo' = Tail(todo)
               /\ UNCHANGED error
    /\ UNCHANGED <<pc, mangleVars, matchVars, passVars, walkVars, call_stack,
                   calibration_scope, defcalVars, trace>>

\* mutant: the block is visited for start and for end only
TimingConstraints_visit_ForInLoop_ends ==
    /\ Visiting("TimingConstraints", "ForInLoop")
    /\ \E node \in {Head(todo).node} :
       \E records \in {push(call_stack, LoopRecord("for_loop", call_stack))} :
       \E start \in {RangeStart(node.expression, records, calibration_scope)} :
       \E end \in {RangeEnd(node.expression, records, calibration_scope)} :
       \E step \in {RangeStep(node.expression, records, calibration_scope)} :
          /\ call_stack' = records
          /\ CASE node.expression.kind # "RangeDefinition" ->
                    Raise("UNHANDLED", <<ExitItem>> \o Tail(todo))
               [] node.expression.kind = "RangeDefinition"
                  /\ FirstError(start, end, step) # "" ->
                    Raise(FirstError(start, end, step), <<ExitItem>> \o Tail(todo))
               [] OTHER ->
                    /\ todo' = LoopItems("TimingConstraints", node.name,
                                         <<start.value, end.value>>, node.body)
                               \o <<ExitItem>> \o Tail(todo)
                    /\ UNCHANGED error
    /\ UNCHANGED <<pc, mangleVars, matchVars, passVars, walkVars, calibration_scope,
                   defcalVars, flagged_wfs, trace>>

\* TimingConstraints.visit_ForInLoop: the block is visited for start,
\* start + step and end
TimingConstraints_visit_ForInLoop ==
    /\ Visiting("TimingConstraints", "ForInLoop")
    /\ \E node \in {Head(todo).node} :
       \E records \in {push(call_stack, LoopRecord("for_loop", call_stack))} :
       \E start \in {RangeStart(node.expression, records, calibration_scope)} :
       \E end \in {RangeEnd(node.expression, records, calibration_scope)} :
       \E step \in {RangeStep(node.expression, records, calibration_scope)} :
          /\ call_stack' = records
          /\ CASE node.expression.kind # "RangeDefinition" ->
                    Raise("UNHANDLED", <<ExitItem>> \o Tail(todo))
               [] node.expression.kind = "RangeDefinition"
                  /\ FirstError(start, end, step) # "" ->
                    Raise(FirstError(start, end, step), <<ExitItem>> \o Tail(todo))
               [] OTHER ->
                    /\ todo' = LoopItems("TimingConstraints", node.name,
                                         <<start.value, IntValue(start.value.n + step.value.n),
                                           end.value>>, node.body)
                               \o <<ExitItem>> \o Tail(todo)
                    /\ UNCHANGED error
    /\ UNCHANGED <<pc, mangleVars, matchVars, passVars, walkVars, calibration_scope,
                   defcalVars, flagged_wfs, trace>>

\* the pattern of TimingConstraints.visit_FunctionCall: a pulse function
\* called with exactly two arguments
IsCheckedCall(e) == e.name \in PulseFunctions /\ Len(e.arguments) = 2

\* TimingConstraints.visit_FunctionCall
TimingConstraints_visit_FunctionCall ==
    /\ Visiting("TimingConstraints", "ExpressionStatement")
    /\ \E e \in {Head(todo).node.expression} :
       \E records \in {push(call_stack, ActivationRecord(e.name, "SUBROUTINE",
                                                         nesting_level(call_stack) + 1, FALSE))} :
          /\ call_stack' = records
          /\ IF ~IsCheckedCall(e)
             THEN /\ todo' = <<SuperItem("TimingConstraints", Head(todo).node), ExitItem>>
                             \o Tail(todo)
                  /\ UNCHANGED <<flagged_wfs, error>>
             ELSE IF e.arguments[2].kind = "FunctionCall"
                     /\ e.arguments[2].name = ExecuteTableEntry
             THEN /\ todo' = <<ExitItem>> \o Tail(todo)
                  /\ UNCHANGED <<flagged_wfs, error>>
             ELSE \E arg \in {Eval(e.arguments[2], records, calibration_scope)} :
                  \E checked \in {check_timing_constraints(arg.value)} :
                     IF arg.error # ""
                     THEN Raise(arg.error, <<ExitItem>> \o Tail(todo)) /\ UNCHANGED flagged_wfs
                     ELSE /\ flagged_wfs' =
                                IF checked.valid THEN flagged_wfs
                                ELSE Append(flagged_wfs, [wfm |-> e.arguments[2],
                                                          length |-> checked.length])
                          /\ todo' = <<ExitItem>> \o Tail(todo)
                          /\ UNCHANGED error
    /\ UNCHANGED <<pc, mangleVars, matchVars, passVars, walkVars, calibration_scope,
                   defcalVars, trace>>

(***************************************************************************)
(* SEQCPrinter.  Its Interpreter shares its call stack and visits a node   *)
(* before the node is printed (_visit_interpreter) while self.interpret    *)
(* holds; printing writes to the stream and pushes no record.              *)
(***************************************************************************)
\* SEQCPrinter.visit_Program
SEQCPrinter_visit_Program ==
    /\ pc = "walk"
    /\ Len(todo) > 0
    /\ Head(todo).op = "program"
    /\ visitor.class = "SEQCPrinter"
    /\ call_stack' = push(call_stack, ActivationRecord("main", "PROGRAM", 1, FALSE))
    /\ todo' = Visits("SEQCPrinter", statements) \o <<ExitItem>>
    /\ UNCHANGED <<pc, mangleVars, matchVars, passVars, walkVars, calibration_scope,
                   defcalVars, flagged_wfs, error, trace>>

\* the methods of SEQCPrinter that are not decorated with _visit_interpreter
SEQCPrinterOwn == {"ForInLoop", "WhileLoop"}

\* _visit_interpreter: self.interpreter.visit(node), then the method prints
SEQCPrinter_visit_interpreter ==
    /\ pc = "walk"
    /\ Len(todo) > 0
    /\ Head(todo).op = "visit"
    /\ Head(todo).self = "SEQCPrinter"
    /\ Head(todo).node.kind \notin SEQCPrinterOwn
    /\ todo' = <<VisitItem("Interpreter", Head(todo).node), PrintItem(Head(todo).node)>>
               \o Tail(todo)
    /\ UNCHANGED <<pc, mangleVars, matchVars, passVars, walkVars, call_stack,
                   calibration_scope, defcalVars, flagged_wfs, error, trace>>

\* the method of SEQCPrinter itself, with the interpreter done or turned off
SEQCPrinter_print ==
    /\ pc = "walk"
    /\ Len(todo) > 0
    /\ Head(todo).op = "print"
    /\ todo' = Tail(todo)
    /\ UNCHANGED <<pc, mangleVars, matchVars, passVars, walkVars, call_stack,
                   calibration_scope, defcalVars, flagged_wfs, error, trace>>

\* SEQCPrinter.visit_WhileLoop: the block is printed once
SEQCPrinter_visit_WhileLoop ==
    /\ Visiting("SEQCPrinter", "WhileLoop")
    /\ todo' = Visits("SEQCPrinter", Head(todo).node.body) \o Tail(todo)
    /\ UNCHANGED <<pc, mangleVars, matchVars, passVars, walkVars, call_stack,
                   calibration_scope, defcalVars, flagged_wfs, error, trace>>

\* the parts of a range that SEQCPrinter.visit_ForInLoop can print
Printable(e) == e.kind \in {"IntegerLiteral", "Identifier", "IndexExpression"}

\* SEQCPrinter.visit_ForInLoop: the loop variable is bound to the start and
\* the block is printed once with the interpreter turned off
SEQCPrinter_visit_ForInLoop ==
    /\ Visiting("SEQCPrinter", "ForInLoop")
    /\ \E node \in {Head(todo).node} :
       \E records \in {push(call_stack, LoopRecord("for loop", call_stack))} :
       \E start \in {RangeStart(node.expression, records, calibration_scope)} :
          CASE node.expression.kind # "RangeDefinition" ->
                   /\ call_stack' = records
                   /\ Raise("UNHANDLED", <<ExitItem>> \o Tail(todo))
            [] node.expression.kind = "RangeDefinition"
               /\ ~Printable(node.expression.arguments[1])
               /\ node.expression.arguments[1] # NoExpr ->
                   /\ call_stack' = records
                   /\ Raise("UNHANDLED", <<ExitItem>> \o Tail(todo))
            [] node.expression.kind = "RangeDefinition"
               /\ (Printable(node.expression.arguments[1]) \/ node.expression.arguments[1] = NoExpr)
               /\ start.error # "" ->
                   /\ call_stack' = records
                   /\ Raise(start.error, <<ExitItem>> \o Tail(todo))
            [] node.expression.kind = "RangeDefinition"
               /\ (Printable(node.expression.arguments[1]) \/ node.expression.arguments[1] = NoExpr)
               /\ start.error = ""
               /\ \/ ~Printable(node.expression.arguments[2])
                  \/ /\ ~Printable(node.expression.arguments[3])
                     /\ node.expression.arguments[3] # NoExpr ->
                   /\ call_stack' = Store(records, calibration_scope, Len(records),
                                          node.name, start.value).records
                   /\ Raise("UNHANDLED", <<ExitItem>> \o Tail(todo))
            [] OTHER ->
                   /\ call_stack' = Store(records, calibration_scope, Len(records),
                                          node.name, start.value).records
                   /\ todo' = Prints(node.body) \o <<ExitItem>> \o Tail(todo)
                   /\ UNCHANGED error
    /\ UNCHANGED <<pc, mangleVars, matchVars, passVars, walkVars, calibration_scope,
                   defcalVars, flagged_wfs, trace>>

(***************************************************************************)
(* The programs walked                                                     *)
(***************************************************************************)
MaxWalk == 2

Zeros(n) == [i \in 1..n |-> 0]

AssignLoopVariable == ClassicalAssignment(VarB, Identifier(VarA))
ForRange(start, end, step, block) == ForInLoop(VarA, RangeDefinition(start, end, step), block)
ShortDelay == DelayInstruction(DurationLiteral(16), <<>>)

WalkStatements ==
    { ClassicalDeclaration("WaveformType", Waveform, ArrayLiteral(Zeros(32))),
      ClassicalDeclaration("WaveformType", Waveform, ArrayLiteral(Zeros(40))),
      ClassicalDeclaration("WaveformType", Waveform, NoExpr),
      ClassicalDeclaration("IntType", VarB, IntegerLiteralOf(0)),
      ClassicalDeclaration("BoolType", VarC, BooleanLiteral(TRUE)),
      PlayOn(Frame1),
      ExpressionStatement(FunctionCall(CaptureV2, <<Identifier(Frame1), ArrayLiteral(Zeros(40))>>)),
      ExpressionStatement(FunctionCall(Play,
          <<Identifier(Frame1), FunctionCall(ExecuteTableEntry, <<IntegerLiteralOf(0)>>)>>)),
      ExpressionStatement(FunctionCall(ExecuteTableEntry, <<IntegerLiteralOf(0)>>)),
      DelayInstruction(DurationLiteral(48), <<>>),
      ShortDelay,
      ForRange(IntegerLiteralOf(0), IntegerLiteralOf(10), IntegerLiteralOf(2), <<AssignLoopVariable>>),
      ForRange(IntegerLiteralOf(3), IntegerLiteralOf(0), UnaryMinus(IntegerLiteralOf(1)),
               <<AssignLoopVariable>>),
      ForRange(IntegerLiteralOf(0), IntegerLiteralOf(2), IntegerLiteralOf(0), <<AssignLoopVariable>>),
      ForRange(NoExpr, IntegerLiteralOf(2), NoExpr, <<ShortDelay>>),
      ForRange(IntegerLiteralOf(1), NoExpr, NoExpr, <<ShortDelay>>),
      ForInLoop(VarA, DiscreteSet(<<IntegerLiteralOf(1), IntegerLiteralOf(2)>>), <<ShortDelay>>),
      CalibrationDefinition(NameX, <<>>, <<Phys0>>, None,
          <<ShortDelay, ReturnStatement(IntegerLiteralOf(0)), DelayInstruction(DurationLiteral(24), <<>>)>>),
      QuantumGate(NameX, <<>>, <<Phys0>>),
      QuantumGate(NameY, <<>>, <<Phys0>>),
      CalibrationStatement(<<ClassicalDeclaration("WaveformType", Waveform, ArrayLiteral(Zeros(40)))>>),
      ClassicalAssignment(VarB, IntegerLiteralOf(1)),
      WhileLoop(Identifier(VarC), <<ClassicalAssignment(VarC, BooleanLiteral(FALSE))>>) }

\* Interpreter(visit_loops=...), TimingConstraints(...), SEQCPrinter(...)
Visitors ==
    { [class |-> "Interpreter", visit_loops |-> TRUE],
      [class |-> "Interpreter", visit_loops |-> FALSE],
      [class |-> "TimingConstraints", visit_loops |-> TRUE],
      [class |-> "SEQCPrinter", visit_loops |-> TRUE] }

\* the visitor is constructed and is about to visit the Program
InitWalk ==
    /\ pc = "walk"
    /\ visitor \in Visitors
    /\ statements \in SeqsUpTo(WalkStatements, MaxWalk)
    /\ todo = <<Item("program", visitor.class, NoExpr, None, NoneValue)>>
    /\ call_stack = <<>>
    /\ calibration_scope = EmptyDict
    /\ defcal_names = <<>>
    /\ defcal_nodes = EmptyDict
    /\ flagged_wfs = <<>>
    /\ error = NoError
    /\ trace = <<>>
    /\ NoMangleState
    /\ NoMatchState
    /\ NoPassState
    /\ NoSemState
    /\ NoTimeState

NextWalk ==
    \/ ar_context_manager_exit
    \/ Interpreter_visit_Program
    \/ Interpreter_visit_ClassicalDeclaration
    \/ Interpreter_visit_ClassicalAssignment
    \/ Interpreter_visit_ReturnStatement
    \/ Interpreter_visit_DelayInstruction
    \/ Interpreter_visit_FunctionCall
    \/ Interpreter_visit_CalibrationDefinition
    \/ Interpreter_ForInLoop_bind
    \/ Interpreter_visit_ForInLoop
    \/ Interpreter_visit_WhileLoop
    \/ Interpreter_WhileLoop_condition
    \/ Interpreter_visit_QuantumGate
    \/ Interpreter_visit_CalibrationStatement
    \/ Interpreter_CalibrationStatement_update
    \/ TimingConstraints_visit_Program
    \/ TimingConstraints_visit_Program_report
    \/ TimingConstraints_visit_DelayInstruction
    \/ TimingConstraints_visit_ForInLoop
    \/ TimingConstraints_visit_FunctionCall
    \/ SEQCPrinter_visit_Program
    \/ SEQCPrinter_visit_interpreter
    \/ SEQCPrinter_print
    \/ SEQCPrinter_visit_WhileLoop
    \/ SEQCPrinter_visit_ForInLoop

SpecWalk == InitWalk /\ [][NextWalk]_vars

(***************************************************************************)
(* The for loops walked: `int b = 0;` followed by one for loop over a      *)
(* DiscreteSet of up to MaxSetLen integers of 0..MaxValue, or over a range *)
(* with or without start, end (up to MaxValue, or 10) and step, with the   *)
(* body `b = a;` or with the body `c = a;`, which raises because c is not  *)
(* declared.                                                               *)
(***************************************************************************)
MaxValue == 3
MaxSetLen == 3

LoopValues == {IntegerLiteralOf(n) : n \in 0..MaxValue}
LoopSets == {DiscreteSet(values) : values \in SeqsUpTo(LoopValues, MaxSetLen)}
LoopSteps == {NoExpr, IntegerLiteralOf(2), IntegerLiteralOf(0), UnaryMinus(IntegerLiteralOf(1))}
LoopEnds == LoopValues \cup {NoExpr, IntegerLiteralOf(10)}
LoopRanges ==
    {RangeDefinition(start, end, step) :
        start \in LoopValues \cup {NoExpr}, end \in LoopEnds, step \in LoopSteps}
LoopBodies == {<<AssignLoopVariable>>, <<ClassicalAssignment(VarC, Identifier(VarA))>>}
LoopVisitors ==
    { [class |-> "Interpreter", visit_loops |-> TRUE],
      [class |-> "TimingConstraints", visit_loops |-> TRUE] }

InitLoops ==
    /\ pc = "walk"
    /\ visitor \in LoopVisitors
    /\ statements \in {<<ClassicalDeclaration("IntType", VarB, IntegerLiteralOf(0)),
                         ForInLoop(VarA, set_declaration, block)>> :
                           set_declaration \in LoopSets \cup LoopRanges, block \in LoopBodies}
    /\ todo = <<Item("program", visitor.class, NoExpr, None, NoneValue)>>
    /\ call_stack = <<>>
    /\ calibration_scope = EmptyDict
    /\ defcal_names = <<>>
    /\ defcal_nodes = EmptyDict
    /\ flagged_wfs = <<>>
    /\ error = NoError
    /\ trace = <<>>
    /\ NoMangleState
    /\ NoMatchState
    /\ NoPassState
    /\ NoSemState
    /\ NoTimeState

NextLoops ==
    \/ ar_context_manager_exit
    \/ Interpreter_visit_Program
    \/ Interpreter_visit_ClassicalDeclaration
    \/ Interpreter_visit_ClassicalAssignment
    \/ Interpreter_ForInLoop_bind
    \/ Interpreter_visit_ForInLoop
    \/ TimingConstraints_visit_Program
    \/ TimingConstraints_visit_Program_report
    \/ TimingConstraints_visit_ForInLoop

SpecLoops == InitLoops /\ [][NextLoops]_vars

(***************************************************************************)
(* ScopedSymbolTable (passes/semantic_analysis/scoped_symbol_table.py).    *)
(* A table is a record (enclosing_scope, _symbols): enclosing_scope is the *)
(* place of the enclosing table in tables, 0 for None, and _symbols holds  *)
(* the keys of the dict.  Every Symbol is truthy, so a lookup is modelled  *)
(* by whether it returns a Symbol.  scope_name is only written to the log. *)
(* The function symbols read from the json files of _static are not part   *)
(* of the model; none of them is a name of the programs below.             *)
(***************************************************************************)
BUILTIN_TYPES ==
    { <<"A", "N", "G", "L", "E">>, <<"A", "R", "R", "A", "Y">>, <<"B", "I", "T">>,
      <<"B", "I", "T", "S", "T", "R", "I", "N", "G">>, <<"B", "O", "O", "L">>,
      <<"C", "O", "M", "P", "L", "E", "X">>, <<"D", "U", "R", "A", "T", "I", "O", "N">>,
      <<"F", "L", "O", "A", "T">>, <<"I", "M", "A", "G", "I", "N", "A", "R", "Y">>,
      <<"I", "N", "T">>, <<"Q", "U", "B", "I", "T">>,
      <<"S", "T", "R", "E", "T", "C", "H">>, <<"U", "I", "N", "T">> }

BUILTIN_CAL_TYPES ==
    { <<"F", "R", "A", "M", "E">>, <<"P", "O", "R", "T">>,
      <<"W", "A", "V", "E", "F", "O", "R", "M">> }

\* ScopedSymbolTable(scope_name, enclosing_scope): the root table holds the
\* builtin symbols
ScopedSymbolTable(enclosing_scope) ==
    [enclosing_scope |-> enclosing_scope,
     _symbols |-> IF enclosing_scope = 0 THEN BUILTIN_TYPES ELSE {}]

\* CalScopedSymbolTable(scope_name, enclosing_scope, init_cal)
CalScopedSymbolTable(enclosing_scope, init_cal) ==
    [enclosing_scope |-> enclosing_scope,
     _symbols |-> ScopedSymbolTable(enclosing_scope)._symbols
                    \cup (IF init_cal THEN BUILTIN_CAL_TYPES ELSE {})]

\* scopes[scope].insert(symbol)
insert(scopes, scope, name) ==
    [scopes EXCEPT ![scope]._symbols = @ \cup {name}]

lookup_any_scope(scopes, scope, name, current_scope_only) ==
    \E i \in 1..Len(scopes) : name \in scopes[i]._symbols

\* scopes[scope].lookup(name, current_scope_only) is not None
RECURSIVE lookup(_, _, _, _)
lookup(scopes, scope, name, current_scope_only) ==
    IF name \in scopes[scope]._symbols THEN TRUE
    ELSE IF current_scope_only THEN FALSE
    ELSE IF scopes[scope].enclosing_scope # 0
         THEN lookup(scopes, scopes[scope].enclosing_scope, name, FALSE)
         ELSE FALSE

(***************************************************************************)
(* SemanticAnalyzer (passes/semantic_analysis/semantic_analyzer.py).  The  *)
(* walk is the list todo, as for the Interpreter; the items of the         *)
(* analyzer are                                                            *)
(*   "enter"    scope_context_manager is entered with a table and context, *)
(*   "exit"     the finally of scope_context_manager,                      *)
(*   "declare"  declare_symbol(symbol),                                    *)
(*   "insert"   current_scope.insert(symbol).                              *)
(* scope_context None is the string "None".                                *)
(***************************************************************************)
QubitDeclaration(qubit) ==
    Node("QubitDeclaration", "", qubit, <<>>, <<>>, None, <<>>, None, NoExpr)
SubroutineDefinition(name, arguments, body) ==
    Node("SubroutineDefinition", "", name, arguments, <<>>, None, body, None, NoExpr)
QuantumGateDefinition(name, arguments, qubits, body) ==
    Node("QuantumGateDefinition", "", name, arguments, qubits, None, body, None, NoExpr)
Box(body) ==
    Node("Box", "", None, <<>>, <<>>, None, body, None, NoExpr)
BranchingStatement(condition, if_block, else_block) ==
    [kind |-> "BranchingStatement", type |-> "", name |-> None, arguments |-> <<>>,
     qubits |-> <<>>, return_type |-> None, body |-> if_block, target |-> None,
     expression |-> condition, else_block |-> else_block]

EnterItem(table, context) ==
    Item("enter", "SemanticAnalyzer", NoExpr, table, [kind |-> context, n |-> 0])
DeclareItem(name) == Item("declare", "SemanticAnalyzer", NoExpr, name, NoneValue)
InsertItem(name) == Item("insert", "SemanticAnalyzer", NoExpr, name, NoneValue)
Declares(names) == [i \in 1..Len(names) |-> DeclareItem(names[i])]

\* TypeVisitor._visit_type_node: the upper-case class name up to "TYPE"
TypeName(type) ==
    CASE type = "IntType" -> <<"I", "N", "T">>
      [] type = "ArrayType" -> <<"A", "R", "R", "A", "Y">>

\* SemanticAnalyzer._visit_type_node: lookup(name).name fails on None
visit_type_node(type) ==
    IF lookup(tables, current_scope, TypeName(type), FALSE) THEN "" ELSE "AttributeError"

\* the error of self.visit(expression): visit_Identifier looks the name up
\* in the current and the enclosing scopes, a literal is looked at only
visit_expression(e) ==
    IF e.kind = "Identifier" /\ e.name[1] # "$"
       /\ ~lookup(tables, current_scope, e.name, FALSE)
    THEN "ID_NOT_FOUND" ELSE ""

\* ensure_in_global_scope returns without raising
ensure_in_global_scope == scope_context = "GLOBAL"

local_context_kept(context) == context

\* local_context_manager, the context of the scope it enters
local_context(context) == IF context = "GLOBAL" THEN "LOCAL" ELSE context

\* with self.local_context_manager(name, block): with_body
local_context_manager(with_body, block) ==
    <<EnterItem("local", "")>> \o with_body \o Visits("SemanticAnalyzer", block) \o <<ExitItem>>

\* an error propagates through the items left to do: of these only the
\* finally of every scope_context_manager that has been entered runs; pending
\* counts the managers the items before would have entered
RECURSIVE Finally(_, _)
Finally(items, pending) ==
    IF items = <<>> THEN <<>>
    ELSE (IF Head(items).op = "exit" /\ pending = 0 THEN <<Head(items)>> ELSE <<>>)
         \o Finally(Tail(items),
                    CASE Head(items).op = "enter" -> pending + 1
                      [] Head(items).op = "exit" /\ pending > 0 -> pending - 1
                      [] OTHER -> pending)

\* raise self.error(error_code, name)
SemanticError(code, rest, pending) ==
    /\ error' = Raised(code)
    /\ todo' = Finally(rest, pending)

semFrame ==
    <<pc, mangleVars, matchVars, passVars, visitor, statements, call_stack,
      calibration_scope, defcalVars, flagged_wfs, durationVars, frameVars, fieldVars>>

Analyzing(op) == pc = "analyze" /\ Len(todo) > 0 /\ Head(todo).op = op
AnalyzerVisiting(kind) == Analyzing("visit") /\ Head(todo).node.kind = kind

\* a visit method that ends by raising, or goes on with the items of its body
Continue(code, items) ==
    IF code # "" THEN SemanticError(code, Tail(todo), 0)
    ELSE todo' = items \o Tail(todo) /\ UNCHANGED error

SemanticAnalyzer_visit_Program ==
    /\ Analyzing("program")
    /\ todo' = <<EnterItem("new", "GLOBAL")>> \o Visits("SemanticAnalyzer", statements)
                    \o <<ExitItem>>
    /\ UNCHANGED <<semFrame, semVars, error, trace>>

\* scope_context_manager up to the yield, with the table its caller hands
\* it: a new ScopedSymbolTable, the calibration_scope property, or a new
\* CalScopedSymbolTable in the calibration scope
scope_context_manager_enter ==
    /\ Analyzing("enter")
    /\ LET table == Head(todo).name
           context == IF table = "local" THEN local_context(scope_context)
                      ELSE Head(todo).value.kind
           created == CASE table \in {"new", "local"} -> <<ScopedSymbolTable(current_scope)>>
                        [] table = "cal" /\ _calibration_scope = 0 ->
                              <<CalScopedSymbolTable(current_scope, TRUE)>>
                        [] table = "cal" /\ _calibration_scope # 0 -> <<>>
                        [] table = "defcal" ->
                              <<CalScopedSymbolTable(_calibration_scope, FALSE)>>
       IN  IF table = "cal" /\ _calibration_scope = 0 /\ ~ensure_in_global_scope
           THEN /\ SemanticError("NOT_IN_GLOBAL_SCOPE", Tail(todo), 1)
                /\ UNCHANGED semVars
           ELSE /\ tables' = tables \o created
                /\ current_scope' = IF created = <<>> THEN _calibration_scope
                                    ELSE Len(tables) + 1
                /\ _calibration_scope' = IF table = "cal" THEN current_scope'
                                         ELSE _calibration_scope
                /\ scope_context' = context
                /\ enclosing' = Append(enclosing, [enclosing_scope |-> current_scope,
                                                   enclosing_context |-> scope_context])
                /\ todo' = Tail(todo)
                /\ UNCHANGED error
    /\ UNCHANGED <<semFrame, trace>>

\* scope_context_manager, the finally.  It runs when the with-block ends and
\* when an error leaves it; None and no table are falsy and restore nothing.
scope_context_manager_exit ==
    /\ Analyzing("exit")
    /\ LET saved == enclosing[Len(enclosing)]
       IN  /\ scope_context' = IF saved.enclosing_context # "None"
                               THEN saved.enclosing_context ELSE scope_context
           /\ current_scope' = IF saved.enclosing_scope # 0
                               THEN saved.enclosing_scope ELSE current_scope
    /\ enclosing' = SubSeq(enclosing, 1, Len(enclosing) - 1)
    /\ todo' = Tail(todo)
    /\ UNCHANGED <<semFrame, tables, _calibration_scope, error, trace>>

declare_symbol ==
    /\ Analyzing("declare")
    /\ LET name == Head(todo).name
       IN  /\ IF lookup(tables, current_scope, name, TRUE)
              THEN SemanticError("DUPLICATE_ID", Tail(todo), 0) /\ UNCHANGED tables
              ELSE /\ tables' = insert(tables, current_scope, name)
                   /\ todo' = Tail(todo)
                   /\ UNCHANGED error
           /\ trace' = Append(trace, [event |-> "declare", name |-> name,
                                      scope |-> current_scope,
                                      visible |-> lookup(tables, current_scope, name, FALSE)])
    /\ UNCHANGED <<semFrame, current_scope, _calibration_scope, scope_context, enclosing>>

SemanticAnalyzer_visit_ClassicalDeclaration ==
    /\ AnalyzerVisiting("ClassicalDeclaration")
    /\ LET node == Head(todo).node
       IN  Continue(IF node.type = "ArrayType" /\ ~ensure_in_global_scope
                    THEN "NOT_IN_GLOBAL_SCOPE" ELSE visit_type_node(node.type),
                    <<DeclareItem(node.name)>>)
    /\ UNCHANGED <<semFrame, semVars, trace>>

SemanticAnalyzer_visit_QubitDeclaration ==
    /\ AnalyzerVisiting("QubitDeclaration")
    /\ Continue(IF ensure_in_global_scope THEN "" ELSE "NOT_IN_GLOBAL_SCOPE",
                <<DeclareItem(Head(todo).node.name)>>)
    /\ UNCHANGED <<semFrame, semVars, trace>>

SemanticAnalyzer_visit_SubroutineDefinition ==
    /\ AnalyzerVisiting("SubroutineDefinition")
    /\ LET node == Head(todo).node
       IN  Continue(IF ensure_in_global_scope THEN "" ELSE "NOT_IN_GLOBAL_SCOPE",
                    <<DeclareItem(node.name), EnterItem("new", "SUBROUTINE")>>
                        \o Visits("SemanticAnalyzer", node.arguments)
                        \o Visits("SemanticAnalyzer", node.body) \o <<ExitItem>>)
    /\ UNCHANGED <<semFrame, semVars, trace>>

SemanticAnalyzer_visit_ClassicalArgument ==
    /\ AnalyzerVisiting("ClassicalArgument")
    /\ LET node == Head(todo).node
       IN  Continue(visit_type_node(node.type), <<DeclareItem(node.name)>>)
    /\ UNCHANGED <<semFrame, semVars, trace>>

SemanticAnalyzer_visit_QuantumGateDefinition ==
    /\ AnalyzerVisiting("QuantumGateDefinition")
    /\ LET node == Head(todo).node
       IN  Continue(IF ensure_in_global_scope THEN "" ELSE "NOT_IN_GLOBAL_SCOPE",
                    <<DeclareItem(node.name), EnterItem("new", "SUBROUTINE")>>
                        \o Declares([i \in 1..Len(node.arguments) |-> node.arguments[i].name])
                        \o Declares(node.qubits)
                        \o Visits("SemanticAnalyzer", node.body) \o <<ExitItem>>)
    /\ UNCHANGED <<semFrame, semVars, trace>>

SemanticAnalyzer_visit_CalibrationStatement ==
    /\ AnalyzerVisiting("CalibrationStatement")
    /\ Continue(IF ensure_in_global_scope THEN "" ELSE "NOT_IN_GLOBAL_SCOPE",
                <<EnterItem("cal", "DEFCAL")>>
                    \o Visits("SemanticAnalyzer", Head(todo).node.body) \o <<ExitItem>>)
    /\ UNCHANGED <<semFrame, semVars, trace>>

\* the symbol of the defcal, named by its mangled signature, is declared in
\* the calibration scope; its arguments, qubits and body in a table of its own
SemanticAnalyzer_visit_CalibrationDefinition ==
    /\ AnalyzerVisiting("CalibrationDefinition")
    /\ LET node == Head(todo).node
       IN  Continue(IF ensure_in_global_scope THEN "" ELSE "NOT_IN_GLOBAL_SCOPE",
                    <<EnterItem("cal", "DEFCAL"),
                      DeclareItem(mangle(ManglerSignature(node))), ExitItem,
                      EnterItem("defcal", "DEFCAL")>>
                        \o Visits("SemanticAnalyzer", node.arguments)
                        \o Declares(node.qubits)
                        \o Visits("SemanticAnalyzer", node.body) \o <<ExitItem>>)
    /\ UNCHANGED <<semFrame, semVars, trace>>

SemanticAnalyzer_visit_ForInLoop ==
    /\ AnalyzerVisiting("ForInLoop")
    /\ LET node == Head(todo).node
       IN  Continue(visit_type_node(node.type),
                    local_context_manager(<<InsertItem(node.name)>>, node.body))
    /\ UNCHANGED <<semFrame, semVars, trace>>

\* self.current_scope.insert(loop_symbol)
SemanticAnalyzer_ForInLoop_insert ==
    /\ Analyzing("insert")
    /\ tables' = insert(tables, current_scope, Head(todo).name)
    /\ todo' = Tail(todo)
    /\ UNCHANGED <<semFrame, current_scope, _calibration_scope, scope_context,
                   enclosing, error, trace>>

SemanticAnalyzer_visit_BranchingStatement ==
    /\ AnalyzerVisiting("BranchingStatement")
    /\ LET node == Head(todo).node
       IN  Continue(visit_expression(node.expression),
                    local_context_manager(<<>>, node.body)
                        \o local_context_manager(<<>>, node.else_block))
    /\ UNCHANGED <<semFrame, semVars, trace>>

SemanticAnalyzer_visit_WhileLoop ==
    /\ AnalyzerVisiting("WhileLoop")
    /\ LET node == Head(todo).node
       IN  Continue(visit_expression(node.expression),
                    local_context_manager(<<>>, node.body))
    /\ UNCHANGED <<semFrame, semVars, trace>>

SemanticAnalyzer_visit_Box ==
    /\ AnalyzerVisiting("Box")
    /\ Continue("", local_context_manager(<<>>, Head(todo).node.body))
    /\ UNCHANGED <<semFrame, semVars, trace>>

\* GenericVisitor.visit_ExpressionStatement: self.visit(node.expression)
SemanticAnalyzer_visit_ExpressionStatement ==
    /\ AnalyzerVisiting("ExpressionStatement")
    /\ Continue(visit_expression(Head(todo).node.expression), <<>>)
    /\ UNCHANGED <<semFrame, semVars, trace>>

(***************************************************************************)
(* The programs the analyzer is given: declarations of the name a and of   *)
(* the builtin name INT, the definitions that must be global, and each of  *)
(* them in the body of a definition, a cal block, a loop, a branch or a    *)
(* box.                                                                    *)
(***************************************************************************)
MaxSem == 2

NameF == <<"f">>
NameG == <<"g">>
IntA == ClassicalDeclaration("IntType", VarA, NoExpr)
ArrayA == ClassicalDeclaration("ArrayType", VarA, NoExpr)
QubitA == QubitDeclaration(VarA)
DefF(body) == SubroutineDefinition(NameF, <<ClassicalArgument("IntType", VarA)>>, body)
GateG(body) == QuantumGateDefinition(NameG, <<>>, <<WildQ>>, body)
DefcalX(body) == CalibrationDefinition(NameX, <<>>, <<Phys0>>, NoType, body)
ForA(block) ==
    [ForInLoop(VarA, RangeDefinition(IntegerLiteralOf(0), IntegerLiteralOf(1), NoExpr), block)
        EXCEPT !.type = "IntType"]
While(block) == WhileLoop(BooleanLiteral(TRUE), block)

\* the statements that must be in the global scope
GlobalOnly == {ArrayA, QubitA, DefF(<<>>), GateG(<<>>), DefcalX(<<>>)}

SemStatements ==
    GlobalOnly
    \cup {IntA, ClassicalDeclaration("IntType", TypeName("IntType"), NoExpr),
          ExpressionStatement(Identifier(VarA))}
    \cup {DefF(<<s>>) : s \in GlobalOnly \cup {IntA}}
    \cup {DefcalX(<<s>>) : s \in GlobalOnly \cup {IntA}}
    \cup {CalibrationStatement(<<s>>) : s \in GlobalOnly \cup {IntA}}
    \cup {ForA(<<s>>) : s \in GlobalOnly \cup {IntA}}
    \cup {GateG(<<s>>) : s \in {QubitA, IntA}}
    \cup {While(<<s>>) : s \in {IntA, QubitA, DefF(<<>>), While(<<QubitA>>)}}
    \cup {Box(<<s>>) : s \in {IntA, ArrayA, GateG(<<>>)}}
    \cup {BranchingStatement(BooleanLiteral(TRUE), <<QubitA>>, <<IntA>>),
          BranchingStatement(BooleanLiteral(TRUE), <<IntA>>, <<DefcalX(<<>>)>>),
          BranchingStatement(Identifier(VarA), <<IntA>>, <<IntA>>),
          DefF(<<While(<<QubitA>>)>>),
          CalibrationStatement(<<While(<<QubitA>>)>>)}

\* the analyzer is constructed and is about to visit the Program
InitSem ==
    /\ pc = "analyze"
    /\ visitor = [class |-> "SemanticAnalyzer", visit_loops |-> TRUE]
    /\ statements \in SeqsUpTo(SemStatements, MaxSem)
    /\ todo = <<Item("program", "SemanticAnalyzer", NoExpr, None, NoneValue)>>
    /\ tables = <<>>
    /\ current_scope = 0
    /\ _calibration_scope = 0
    /\ scope_context = "None"
    /\ enclosing = <<>>
    /\ error = NoError
    /\ trace = <<>>
    /\ call_stack = None /\ calibration_scope = None /\ defcal_names = None
    /\ defcal_nodes = None /\ flagged_wfs = None
    /\ NoMangleState
    /\ NoMatchState
    /\ NoPassState
    /\ NoTimeState

NextSem ==
    \/ SemanticAnalyzer_visit_Program
    \/ scope_context_manager_enter
    \/ scope_context_manager_exit
    \/ declare_symbol
    \/ SemanticAnalyzer_visit_ClassicalDeclaration
    \/ SemanticAnalyzer_visit_QubitDeclaration
    \/ SemanticAnalyzer_visit_SubroutineDefinition
    \/ SemanticAnalyzer_visit_ClassicalArgument
    \/ SemanticAnalyzer_visit_QuantumGateDefinition
    \/ SemanticAnalyzer_visit_CalibrationStatement
    \/ SemanticAnalyzer_visit_CalibrationDefinition
    \/ SemanticAnalyzer_visit_ForInLoop
    \/ SemanticAnalyzer_ForInLoop_insert
    \/ SemanticAnalyzer_visit_BranchingStatement
    \/ SemanticAnalyzer_visit_WhileLoop
    \/ SemanticAnalyzer_visit_Box
    \/ SemanticAnalyzer_visit_ExpressionStatement

SpecSem == InitSem /\ [][NextSem]_vars

(***************************************************************************)
(* Duration (duration.py).  A Python float is modelled by the rational it  *)
(* stands for, a record (num, den) in lowest terms with den > 0, so that   *)
(* the unit conversions are computed and compared exactly; the rounding of *)
(* floating point is not part of the model.  Every time of the model is    *)
(* non-negative.                                                           *)
(***************************************************************************)
RECURSIVE GCD(_, _)
GCD(a, b) == IF b = 0 THEN a ELSE GCD(b, a % b)

Reduced(num, den, g) == [num |-> num \div g, den |-> den \div g]
Rational(num, den) == Reduced(num, den, GCD(num, den))
Whole(n) == [num |-> n, den |-> 1]

\* a * b, cancelled before it is multiplied out
Cancelled(a, b, g1, g2) ==
    [num |-> (a.num \div g1) * (b.num \div g2), den |-> (a.den \div g2) * (b.den \div g1)]
Times(a, b) == Cancelled(a, b, GCD(a.num, b.den), GCD(b.num, a.den))

\* a / b, b not zero
Over(a, b) == Times(a, [num |-> b.den, den |-> b.num])

\* a + b, over the least common denominator
PlusOver(a, b, g) ==
    Rational(a.num * (b.den \div g) + b.num * (a.den \div g), a.den * (b.den \div g))
Plus(a, b) == PlusOver(a, b, GCD(a.den, b.den))

\* a < b
LessOver(a, b, g) == a.num * (b.den \div g) < b.num * (a.den \div g)
Less(a, b) == LessOver(a, b, GCD(a.den, b.den))

\* int(a): the fraction is cut off
int(a) == Whole(a.num \div a.den)

\* TimeUnits: the value of a unit in seconds (us is an alias of the member
\* for microseconds)
TimeUnits == {"dt", "ns", "us", "ms", "s"}
TimeUnitValue(unit) ==
    CASE unit = "dt" -> Rational(1, 2000000000)
      [] unit = "ns" -> Rational(1, 1000000000)
      [] unit = "us" -> Rational(1, 1000000)
      [] unit = "ms" -> Rational(1, 1000)
      [] unit = "s" -> Whole(1)

Duration(time, unit) == [time |-> time, unit |-> unit]

\* Duration.set_unit: the Duration the object becomes
set_unit(self, unit) ==
    Duration(Over(Times(self.time, TimeUnitValue(self.unit)), TimeUnitValue(unit)), unit)

\* Duration._real_time
real_time(self) == Times(self.time, TimeUnitValue(self.unit))

Duration_add_times(self, x) ==
    Duration(Plus(self.time, x.time), self.unit)

\* Duration.__add__ with a Duration
Duration_add(self, x) ==
    Duration(Plus(self.time,
                  Over(Times(x.time, TimeUnitValue(x.unit)), TimeUnitValue(self.unit))),
             self.unit)

\* Duration.__gt__ and Duration.__lt__ with a Duration
Duration_gt(self, x) == Less(real_time(x), real_time(self))
Duration_lt(self, x) == Less(real_time(self), real_time(x))

(***************************************************************************)
(* The additions checked: two Durations of whole times up to MaxTime in    *)
(* any two units, left out when the sum, counted in the finer of the two   *)
(* units, is not an integer of the model checker.                          *)
(***************************************************************************)
MaxTime == 2

Durations == {Duration(Whole(t), unit) : t \in 0..MaxTime, unit \in TimeUnits}

\* the time of self counted in the unit of x, with the time of x added to
\* it, stays below 2^31
Countable(self, x) ==
    IF self.time.num = 0 THEN TRUE
    ELSE Over(TimeUnitValue(self.unit), TimeUnitValue(x.unit)).num
            <= (2147483647 - x.time.num) \div self.time.num

InitDuration ==
    /\ pc = "add"
    /\ lhs \in Durations
    /\ rhs \in Durations
    /\ Countable(lhs, rhs)
    /\ Countable(rhs, lhs)
    /\ added = None
    /\ frame_times = None /\ invoked = None /\ raised = None /\ calls = 0
    /\ NoFieldState
    /\ NoMangleState
    /\ NoMatchState
    /\ NoPassState
    /\ NoInterpState
    /\ NoSemState

\* added = lhs + rhs
Add ==
    /\ pc = "add"
    /\ added' = Duration_add(lhs, rhs)
    /\ pc' = "added"
    /\ UNCHANGED <<lhs, rhs, mangleVars, matchVars, passVars, interpVars, semVars, frameVars,
                   fieldVars>>

NextDuration == Add

SpecDuration == InitDuration /\ [][NextDuration]_vars

(***************************************************************************)
(* Frame (setup/internal.py).  frame_times[i] is the Duration object that  *)
(* frame i holds as its time.  barrier hands every frame the time object   *)
(* of the latest frame, which set_unit then changes in place.              *)
(***************************************************************************)
\* advance_to once duration.set_unit(self.time.unit) has run: the time of
\* the frame, the Duration the argument has become, and the error raised
advance_to_converted(time, duration) ==
    IF Duration_gt(time, duration)
    THEN [time |-> time, duration |-> duration, error |-> "ValueError"]
    ELSE [time |-> Duration(int(Over(Times(duration.time, TimeUnitValue(duration.unit)),
                                     TimeUnitValue(time.unit))),
                            time.unit),
          duration |-> duration, error |-> ""]

\* Frame.advance_to(duration) of a frame whose time is the Duration time
advance_to(time, duration) == advance_to_converted(time, set_unit(duration, time.unit))

\* max(frame.time for frame in frames): the first of the latest times
Latest(times) ==
    CHOOSE k \in 1..Len(times) :
        /\ \A j \in 1..Len(times) : ~Duration_gt(times[j], times[k])
        /\ \A j \in 1..(k - 1) : Duration_gt(times[k], times[j])

\* barrier from frame i on: frame.advance_to(max_time), where max_time is
\* the object times[k]; an error ends the loop
RECURSIVE barrier_from(_, _, _)
barrier_next(times, k, i, done) ==
    IF done.error # ""
    THEN [times |-> [times EXCEPT ![k] = done.duration], error |-> done.error]
    ELSE barrier_from([[times EXCEPT ![k] = done.duration] EXCEPT ![i] = done.time], k, i + 1)
barrier_from(times, k, i) ==
    IF i > Len(times) THEN [times |-> times, error |-> ""]
    ELSE barrier_next(times, k, i, advance_to(times[i], times[k]))

MaxCalls == 3

FrameUnits == {"dt", "ns", "us"}
FrameDurations ==
    {Duration(Whole(1), "dt"), Duration(Whole(3), "dt"), Duration(Whole(2), "ns"),
     Duration(Whole(1), "us")}

timeFrame == <<mangleVars, matchVars, passVars, interpVars, semVars, durationVars, fieldVars>>

\* two frames are constructed, each with a time of 0 in a unit of its own
InitFrame ==
    /\ pc = "frames"
    /\ frame_times \in {<<Duration(Whole(0), u), Duration(Whole(0), v)>> :
                            u \in FrameUnits, v \in FrameUnits}
    /\ invoked = [op |-> "", frame |-> 0, duration |-> Duration(Whole(0), "dt")]
    /\ raised = ""
    /\ calls = 0
    /\ lhs = None /\ rhs = None /\ added = None
    /\ NoFieldState
    /\ NoMangleState
    /\ NoMatchState
    /\ NoPassState
    /\ NoInterpState
    /\ NoSemState

\* frame.advance(duration): self.time += duration
Frame_advance ==
    /\ pc = "frames"
    /\ calls < MaxCalls
    /\ \E i \in 1..Len(frame_times), duration \in FrameDurations :
          /\ frame_times' = [frame_times EXCEPT ![i] = Duration_add(@, duration)]
          /\ invoked' = [op |-> "advance", frame |-> i, duration |-> duration]
    /\ raised' = ""
    /\ calls' = calls + 1
    /\ UNCHANGED <<pc, timeFrame>>

\* frame.advance_to(duration) with a Duration no frame holds
Frame_advance_to ==
    /\ pc = "frames"
    /\ calls < MaxCalls
    /\ \E i \in 1..Len(frame_times), duration \in FrameDurations :
          /\ frame_times' = [frame_times EXCEPT ![i] = advance_to(@, duration).time]
          /\ raised' = advance_to(frame_times[i], duration).error
          /\ invoked' = [op |-> "advance_to", frame |-> i, duration |-> duration]
    /\ calls' = calls + 1
    /\ UNCHANGED <<pc, timeFrame>>

\* barrier(frames) on all the frames
barrier ==
    /\ pc = "frames"
    /\ calls < MaxCalls
    /\ \E done \in {barrier_from(frame_times, Latest(frame_times), 1)} :
          /\ frame_times' = done.times
          /\ raised' = done.error
    /\ invoked' = [op |-> "barrier", frame |-> Latest(frame_times),
                   duration |-> frame_times[Latest(frame_times)]]
    /\ calls' = calls + 1
    /\ UNCHANGED <<pc, timeFrame>>

NextFrame == Frame_advance \/ Frame_advance_to \/ barrier

SpecFrame == InitFrame /\ [][NextFrame]_vars

(***************************************************************************)
(* Calls of subroutines (Interpreter.visit_SubroutineDefinition,           *)
(* visit_FunctionCall, the last case, and evaluate_function)               *)
(***************************************************************************)
MaxBody == 2

NotFoundItem(self, node) == Item("not_found", self, node, None, NoneValue)

\* external_funcs as the constructor is given it: None, the default, or a
\* dict, of which the keys are kept
NoExternalFuncs == [is_dict |-> FALSE, keys |-> {}]
ExternalDict(keys) == [is_dict |-> TRUE, keys |-> keys]
ExternalFuncs == {NoExternalFuncs, ExternalDict({}), ExternalDict({NameF}), ExternalDict({NameG})}

\* the statements of the bodies of the subroutine f(int a)
BodyStatements ==
    {ClassicalAssignment(VarB, Identifier(VarA)),
     ClassicalAssignment(VarC, Identifier(VarA)),
     ReturnStatement(Identifier(VarA))}

\* the arguments f is called with
CallArguments == {IntegerLiteralOf(1), Identifier(VarC)}

\* int b = 0; def f(int a) { body }; f(argument); and the same without the
\* definition
CallPrograms ==
    {<<ClassicalDeclaration("IntType", VarB, IntegerLiteralOf(0)), DefF(body),
       ExpressionStatement(FunctionCall(NameF, <<argument>>))>> :
          body \in SeqsUpTo(BodyStatements, MaxBody), argument \in CallArguments}
    \cup {<<ClassicalDeclaration("IntType", VarB, IntegerLiteralOf(0)),
            ExpressionStatement(FunctionCall(NameF, <<argument>>))>> :
              argument \in CallArguments}

InitCall ==
    /\ pc = "walk"
    /\ visitor = [class |-> "Interpreter", visit_loops |-> TRUE]
    /\ statements \in CallPrograms
    /\ external_funcs \in ExternalFuncs
    /\ subroutines = EmptyDict
    /\ phases = None
    /\ NoScopeState /\ play_frames = None
    /\ todo = <<Item("program", visitor.class, NoExpr, None, NoneValue)>>
    /\ call_stack = <<>>
    /\ calibration_scope = EmptyDict
    /\ defcal_names = <<>>
    /\ defcal_nodes = EmptyDict
    /\ flagged_wfs = <<>>
    /\ error = NoError
    /\ trace = <<>>
    /\ lhs = None /\ rhs = None /\ added = None
    /\ frame_times = None /\ invoked = None /\ raised = None /\ calls = 0
    /\ NoMangleState
    /\ NoMatchState
    /\ NoPassState
    /\ NoSemState

callFrame ==
    <<pc, mangleVars, matchVars, passVars, visitor, statements, semVars, durationVars,
      frameVars, phases, external_funcs, scopeVars, play_frames, calibration_scope,
      defcalVars,
      flagged_wfs>>

\* Interpreter.visit_SubroutineDefinition
Interpreter_visit_SubroutineDefinition ==
    /\ Visiting("Interpreter", "SubroutineDefinition")
    /\ subroutines' = SetItem(subroutines, Head(todo).node.name, Head(todo).node)
    /\ todo' = Tail(todo)
    /\ UNCHANGED <<callFrame, call_stack, error, trace>>

\* Interpreter.visit_FunctionCall, case _: the record of the call is pushed,
\* the arguments are visited and evaluate_function is called
Interpreter_evaluate_function ==
    /\ Visiting("Interpreter", "ExpressionStatement")
    /\ Head(todo).node.expression.name \notin PulseFunctions \cup {ExecuteTableEntry}
    /\ \E node \in {Head(todo).node.expression} :
       \E records \in {push(call_stack,
                            ActivationRecord(node.name, "SUBROUTINE",
                                             nesting_level(call_stack) + 1, FALSE))} :
       \E args \in {[i \in 1..Len(node.arguments) |->
                        Eval(node.arguments[i], records, calibration_scope)]} :
          CASE \E i \in 1..Len(args) : args[i].error # "" ->
                   /\ call_stack' = records
                   /\ Raise(args[CHOOSE i \in 1..Len(args) : args[i].error # ""].error,
                            <<ExitItem>> \o Tail(todo))
            [] (\A i \in 1..Len(args) : args[i].error = "") /\ ~external_funcs.is_dict ->
                   /\ call_stack' = records
                   /\ Raise("TypeError", <<ExitItem>> \o Tail(todo))
            [] (\A i \in 1..Len(args) : args[i].error = "") /\ external_funcs.is_dict
               /\ node.name \in external_funcs.keys ->
                   /\ call_stack' = records
                   /\ todo' = <<ExitItem>> \o Tail(todo)
                   /\ UNCHANGED error
            [] (\A i \in 1..Len(args) : args[i].error = "") /\ external_funcs.is_dict
               /\ node.name \notin external_funcs.keys /\ node.name \in DOMAIN subroutines ->
                   /\ call_stack' = [records EXCEPT ![Len(records)].members =
                                        BindArguments(@, subroutines[node.name].arguments, args)]
                   /\ todo' = Visits(Head(todo).self, UntilReturn(subroutines[node.name].body))
                              \o (IF has_return(subroutines[node.name].body) THEN <<>>
                                  ELSE <<NotFoundItem(Head(todo).self, node)>>)
                              \o <<ExitItem>> \o Tail(todo)
                   /\ UNCHANGED error
            [] OTHER ->
                   /\ call_stack' = records
                   /\ Raise("UNHANDLED", <<ExitItem>> \o Tail(todo))
    /\ UNCHANGED <<callFrame, subroutines, trace>>

\* evaluate_function, its last line, reached when the body has been visited
\* to its end: raise Error(ErrorCode.UNHANDLED, "function ... not found")
Interpreter_evaluate_function_not_found ==
    /\ pc = "walk"
    /\ Len(todo) > 0
    /\ Head(todo).op = "not_found"
    /\ Raise("UNHANDLED", Tail(todo))
    /\ UNCHANGED <<callFrame, subroutines, call_stack, trace>>

NextCall ==
    \/ ar_context_manager_exit
    \/ Interpreter_visit_Program
    \/ Interpreter_visit_ClassicalDeclaration
    \/ Interpreter_visit_ClassicalAssignment
    \/ Interpreter_visit_ReturnStatement
    \/ Interpreter_visit_SubroutineDefinition
    \/ Interpreter_evaluate_function
    \/ Interpreter_evaluate_function_not_found

SpecCall == InitCall /\ [][NextCall]_vars

(***************************************************************************)
(* The phase of a frame (Interpreter.visit_FunctionCall, the set_phase and *)
(* shift_phase cases)                                                      *)
(*                                                                         *)
(* A float is kept as the multiple of pi / PiSteps nearest to it and the   *)
(* sign of what it differs from that multiple by, a residue of the size of *)
(* a rounding error: Float(n, u) is n * pi / PiSteps, a little less when   *)
(* u = -1, a little more when u = 1.  The result of an operation on floats *)
(* is the exact result rounded, so its residue is any of the three, within *)
(* what the operation guarantees: a remainder is at least 0 and at most    *)
(* the divisor, and a rounded difference is monotone in its operands.      *)
(***************************************************************************)
(* Scoped regions: SEQCPrinter.interpret_context_manager and               *)
(* CoreSplitter.scope_manager.  A manager keeps the value it found in a    *)
(* local (prev_interpret, old_context); previous holds the locals of the      *)
(* managers that are open, innermost last.  The walks below follow the     *)
(* flag, the context, the call stack and the errors; what the printer      *)
(* writes and the tree the splitter returns are left out.                  *)
(***************************************************************************)
MaxDepth == 2

MethodItem(self, node) == Item("method", self, node, None, NoneValue)
RestoreItem(self) == Item("restore", self, NoExpr, None, NoneValue)

MeasureFunc == <<"m", "e", "a", "s", "u", "r", "e", "_", "f", "u", "n", "c">>

\* the statements without a body: int b = 0; c = 1; with c not declared;
\* frame f3; which is not a call of newframe
ScopedLeaves ==
    {ClassicalDeclaration("IntType", VarB, IntegerLiteralOf(0)),
     ClassicalAssignment(VarC, IntegerLiteralOf(1)),
     ClassicalDeclaration("FrameType", Frame3, NoExpr)}

\* a subroutine, a defcal, a cal block and a for loop around a body
ScopedRegions(body) ==
    {SubroutineDefinition(NameF, <<>>, body),
     SubroutineDefinition(MeasureFunc, <<>>, body),
     CalibrationDefinition(NameX, <<>>, <<Phys0>>, None, body),
     CalibrationStatement(body),
     ForInLoop(VarA, RangeDefinition(IntegerLiteralOf(0), IntegerLiteralOf(2), NoExpr), body)}

\* the regions around one of the statements, alone or followed by int b = 0;
ScopedRegionsOver(inner) ==
    UNION {ScopedRegions(body) :
              body \in UNION {{<<t>>, <<t, ClassicalDeclaration("IntType", VarB,
                                                                IntegerLiteralOf(0))>>} :
                                 t \in inner}}

\* the statements nested up to depth regions deep
RECURSIVE ScopedTrees(_)
ScopedTrees(depth) ==
    IF depth = 0 THEN ScopedLeaves
    ELSE ScopedLeaves \cup ScopedRegionsOver(ScopedTrees(depth - 1))

\* the statement after the regions: c = 1; with c not declared, or int c = 0;
ScopedLast ==
    {ClassicalAssignment(VarC, IntegerLiteralOf(1)),
     ClassicalDeclaration("IntType", VarC, IntegerLiteralOf(0))}

\* the printer and the splitter after construction (seqcprinter.py:168,
\* core_splitter.py:41), given one of the statements and a last statement
InitScoped ==
    /\ pc = "walk"
    /\ visitor \in {[class |-> "SEQCPrinter", visit_loops |-> TRUE],
                    [class |-> "CoreSplitter", visit_loops |-> TRUE]}
    /\ statements \in {<<t, last>> : t \in ScopedTrees(MaxDepth), last \in ScopedLast}
    /\ interpret = TRUE
    /\ self_context = "None"
    /\ previous = <<>>
    /\ subroutines = EmptyDict
    /\ phases = None /\ external_funcs = None /\ play_frames = None
    /\ todo = <<Item("program", visitor.class, NoExpr, None, NoneValue)>>
    /\ call_stack = <<>>
    /\ calibration_scope = EmptyDict
    /\ defcal_names = <<>>
    /\ defcal_nodes = EmptyDict
    /\ flagged_wfs = <<>>
    /\ error = NoError
    /\ trace = <<>>
    /\ lhs = None /\ rhs = None /\ added = None
    /\ frame_times = None /\ invoked = None /\ raised = None /\ calls = 0
    /\ NoMangleState
    /\ NoMatchState
    /\ NoPassState
    /\ NoSemState

scopedFrame ==
    <<pc, mangleVars, matchVars, passVars, visitor, statements, semVars, durationVars,
      frameVars, phases, subroutines, external_funcs, play_frames, calibration_scope,
      defcalVars, flagged_wfs, trace>>

\* the next thing to do is the step op of class self
Doing(op, self) ==
    /\ pc = "walk"
    /\ Len(todo) > 0
    /\ Head(todo).op = op
    /\ Head(todo).self = self

\* the methods of SEQCPrinter decorated with _visit_interpreter, of those
\* that visit statements
Decorated ==
    {"ClassicalDeclaration", "ClassicalAssignment", "SubroutineDefinition",
     "CalibrationDefinition", "FunctionCall"}

\* _visit_interpreter (lines 74-83): if self.interpret the interpreter visits
\* the node, then the method runs
SEQCPrinter_interpreter_visit ==
    /\ Doing("visit", "SEQCPrinter")
    /\ Head(todo).node.kind \in Decorated
    /\ todo' = (IF interpret THEN <<VisitItem("Interpreter", Head(todo).node)>> ELSE <<>>)
               \o <<MethodItem("SEQCPrinter", Head(todo).node)>> \o Tail(todo)
    /\ UNCHANGED <<scopedFrame, interpret, self_context, previous, call_stack, error>>

\* SEQCPrinter.visit_ClassicalDeclaration: a frame that is not declared with
\* newframe raises SEQCPrinterError(INVALID_ARGUMENT), other declarations are
\* written
SEQCPrinter_visit_ClassicalDeclaration ==
    /\ Doing("method", "SEQCPrinter")
    /\ Head(todo).node.kind = "ClassicalDeclaration"
    /\ IF Head(todo).node.type = "FrameType" /\ ~IsFrameDeclaration(Head(todo).node)
       THEN Raise("INVALID_ARGUMENT", Tail(todo))
       ELSE todo' = Tail(todo) /\ UNCHANGED error
    /\ UNCHANGED <<scopedFrame, interpret, self_context, previous, call_stack>>

\* SEQCPrinter.visit_ClassicalAssignment: the assignment is written
SEQCPrinter_visit_ClassicalAssignment ==
    /\ Doing("method", "SEQCPrinter")
    /\ Head(todo).node.kind = "ClassicalAssignment"
    /\ todo' = Tail(todo)
    /\ UNCHANGED <<scopedFrame, interpret, self_context, previous, call_stack, error>>

\* interpret_context_manager(False) up to the yield (lines 1561-1562), and
\* the statements of the body visited within it
interpret_context_manager_enter(body, rest) ==
    /\ previous' = Append(previous, interpret)
    /\ interpret' = FALSE
    /\ todo' = Visits("SEQCPrinter", body) \o <<RestoreItem("SEQCPrinter")>> \o rest

\* SEQCPrinter.visit_SubroutineDefinition: measure_func is not written, the
\* body of any other subroutine is written with the interpreter turned off
SEQCPrinter_visit_SubroutineDefinition ==
    /\ Doing("method", "SEQCPrinter")
    /\ Head(todo).node.kind = "SubroutineDefinition"
    /\ IF Head(todo).node.name = MeasureFunc
       THEN todo' = Tail(todo) /\ UNCHANGED <<interpret, previous>>
       ELSE interpret_context_manager_enter(Head(todo).node.body, Tail(todo))
    /\ UNCHANGED <<scopedFrame, self_context, call_stack, error>>

\* SEQCPrinter.visit_CalibrationDefinition, the last case of the match on
\* the body: its statements are written with the interpreter turned off
SEQCPrinter_visit_CalibrationDefinition ==
    /\ Doing("method", "SEQCPrinter")
    /\ Head(todo).node.kind = "CalibrationDefinition"
    /\ interpret_context_manager_enter(Head(todo).node.body, Tail(todo))
    /\ UNCHANGED <<scopedFrame, self_context, call_stack, error>>

\* SEQCPrinter.visit_CalibrationStatement: the statements are visited
SEQCPrinter_visit_CalibrationStatement ==
    /\ Doing("visit", "SEQCPrinter")
    /\ Head(todo).node.kind = "CalibrationStatement"
    /\ todo' = Visits("SEQCPrinter", Head(todo).node.body) \o Tail(todo)
    /\ UNCHANGED <<scopedFrame, interpret, self_context, previous, call_stack, error>>

\* SEQCPrinter.visit_ForInLoop with the statements of the block visited: the
\* record of the loop is pushed, the range is written, the loop variable is
\* bound to the start and the block is visited with the interpreter turned
\* off
SEQCPrinter_visit_ForInLoop_block ==
    /\ Doing("visit", "SEQCPrinter")
    /\ Head(todo).node.kind = "ForInLoop"
    /\ \E node \in {Head(todo).node} :
       \E records \in {push(call_stack, LoopRecord("for loop", call_stack))} :
       \E start \in {RangeStart(node.expression, records, calibration_scope)} :
          CASE node.expression.kind # "RangeDefinition" ->
                   /\ call_stack' = records
                   /\ Raise("UNHANDLED", <<ExitItem>> \o Tail(todo))
                   /\ UNCHANGED <<interpret, previous>>
            [] node.expression.kind = "RangeDefinition"
               /\ ~Printable(node.expression.arguments[1])
               /\ node.expression.arguments[1] # NoExpr ->
                   /\ call_stack' = records
                   /\ Raise("UNHANDLED", <<ExitItem>> \o Tail(todo))
                   /\ UNCHANGED <<interpret, previous>>
            [] node.expression.kind = "RangeDefinition"
               /\ (Printable(node.expression.arguments[1]) \/ node.expression.arguments[1] = NoExpr)
               /\ start.error # "" ->
                   /\ call_stack' = records
                   /\ Raise(start.error, <<ExitItem>> \o Tail(todo))
                   /\ UNCHANGED <<interpret, previous>>
            [] node.expression.kind = "RangeDefinition"
               /\ (Printable(node.expression.arguments[1]) \/ node.expression.arguments[1] = NoExpr)
               /\ start.error = ""
               /\ \/ ~Printable(node.expression.arguments[2])
                  \/ /\ ~Printable(node.expression.arguments[3])
                     /\ node.expression.arguments[3] # NoExpr ->
                   /\ call_stack' = Store(records, calibration_scope, Len(records),
                                          node.name, start.value).records
                   /\ Raise("UNHANDLED", <<ExitItem>> \o Tail(todo))
                   /\ UNCHANGED <<interpret, previous>>
            [] OTHER ->
                   /\ call_stack' = Store(records, calibration_scope, Len(records),
                                          node.name, start.value).records
                   /\ interpret_context_manager_enter(node.body, <<ExitItem>> \o Tail(todo))
                   /\ UNCHANGED error
    /\ UNCHANGED <<scopedFrame, self_context>>

\* interpret_context_manager, the finally without its assignment: the flag
\* is left as the region set it
interpret_context_manager_left ==
    /\ Doing("restore", "SEQCPrinter")
    /\ previous' = SubSeq(previous, 1, Len(previous) - 1)
    /\ todo' = Tail(todo)
    /\ UNCHANGED <<scopedFrame, interpret, self_context, call_stack, error>>

\* interpret_context_manager, the finally (line 1566): self.interpret =
\* prev_interpret.  It runs when the with-block ends and when an error
\* leaves it.
interpret_context_manager_exit ==
    /\ Doing("restore", "SEQCPrinter")
    /\ interpret' = previous[Len(previous)]
    /\ previous' = SubSeq(previous, 1, Len(previous) - 1)
    /\ todo' = Tail(todo)
    /\ UNCHANGED <<scopedFrame, self_context, call_stack, error>>

\* scope_manager(context) up to the yield (lines 327-329), and the
\* statements of the body visited within it
scope_manager_enter(scope, body, rest) ==
    /\ previous' = Append(previous, self_context)
    /\ self_context' = scope
    /\ todo' = Visits("CoreSplitter", body) \o <<RestoreItem("CoreSplitter")>> \o rest

\* CoreSplitter.visit_Program
CoreSplitter_visit_Program ==
    /\ Doing("program", "CoreSplitter")
    /\ scope_manager_enter("GLOBAL", statements, <<>>)
    /\ UNCHANGED <<scopedFrame, interpret, call_stack, error>>

\* CoreSplitter.visit_ClassicalDeclaration: a frame that is not declared with
\* newframe raises TransformError(UNHANDLED)
CoreSplitter_visit_ClassicalDeclaration ==
    /\ Doing("visit", "CoreSplitter")
    /\ Head(todo).node.kind = "ClassicalDeclaration"
    /\ IF Head(todo).node.type = "FrameType" /\ ~IsFrameDeclaration(Head(todo).node)
       THEN Raise("UNHANDLED", Tail(todo))
       ELSE todo' = Tail(todo) /\ UNCHANGED error
    /\ UNCHANGED <<scopedFrame, interpret, self_context, previous, call_stack>>

\* CoreSplitter.visit_CalibrationStatement
CoreSplitter_visit_CalibrationStatement ==
    /\ Doing("visit", "CoreSplitter")
    /\ Head(todo).node.kind = "CalibrationStatement"
    /\ scope_manager_enter("DEFCAL", Head(todo).node.body, Tail(todo))
    /\ UNCHANGED <<scopedFrame, interpret, call_stack, error>>

\* CoreSplitter.visit_SubroutineDefinition
CoreSplitter_visit_SubroutineDefinition ==
    /\ Doing("visit", "CoreSplitter")
    /\ Head(todo).node.kind = "SubroutineDefinition"
    /\ scope_manager_enter("SUBROUTINE", Head(todo).node.body, Tail(todo))
    /\ UNCHANGED <<scopedFrame, interpret, call_stack, error>>

\* CoreSplitter.visit_CalibrationDefinition
CoreSplitter_visit_CalibrationDefinition ==
    /\ Doing("visit", "CoreSplitter")
    /\ Head(todo).node.kind = "CalibrationDefinition"
    /\ scope_manager_enter("DEFCAL", Head(todo).node.body, Tail(todo))
    /\ UNCHANGED <<scopedFrame, interpret, call_stack, error>>

\* QASMTransformer.generic_visit, which CoreSplitter inherits (line 28), for
\* the statements CoreSplitter has no method for: the statements of the
\* block are visited
CoreSplitter_generic_visit ==
    /\ Doing("visit", "CoreSplitter")
    /\ Head(todo).node.kind \in {"ClassicalAssignment", "ForInLoop"}
    /\ todo' = Visits("CoreSplitter", Head(todo).node.body) \o Tail(todo)
    /\ UNCHANGED <<scopedFrame, interpret, self_context, previous, call_stack, error>>

\* scope_manager, the finally (line 332): self.context = old_context.  It
\* runs when the with-block ends and when an error leaves it.
scope_manager_exit ==
    /\ Doing("restore", "CoreSplitter")
    /\ self_context' = previous[Len(previous)]
    /\ previous' = SubSeq(previous, 1, Len(previous) - 1)
    /\ todo' = Tail(todo)
    /\ UNCHANGED <<scopedFrame, interpret, call_stack, error>>

NextScoped ==
    \/ ar_context_manager_exit
    \/ SEQCPrinter_visit_Program
    \/ SEQCPrinter_interpreter_visit
    \/ Interpreter_visit_ClassicalDeclaration
    \/ Interpreter_visit_ClassicalAssignment
    \/ Interpreter_visit_CalibrationDefinition
    \/ Interpreter_visit_SubroutineDefinition
    \/ SEQCPrinter_visit_ClassicalDeclaration
    \/ SEQCPrinter_visit_ClassicalAssignment
    \/ SEQCPrinter_visit_SubroutineDefinition
    \/ SEQCPrinter_visit_CalibrationDefinition
    \/ SEQCPrinter_visit_CalibrationStatement
    \/ SEQCPrinter_visit_ForInLoop_block
    \/ interpret_context_manager_exit
    \/ CoreSplitter_visit_Program
    \/ CoreSplitter_visit_ClassicalDeclaration
    \/ CoreSplitter_visit_CalibrationStatement
    \/ CoreSplitter_visit_SubroutineDefinition
    \/ CoreSplitter_visit_CalibrationDefinition
    \/ CoreSplitter_generic_visit
    \/ scope_manager_exit

SpecScoped == InitScoped /\ [][NextScoped]_vars

(***************************************************************************)
(* SEQCPrinter.visit_play of a 'ones' waveform within for loops.  The      *)
(* frame is declared, the loops are printed and the play is visited in     *)
(* the block of the innermost loop; play_frames holds record, loop_var     *)
(* and loop_value of the calls of visit_play that are open.  What is       *)
(* written to the stream is kept as the events play and hold of the trace. *)
(***************************************************************************)
MaxRecursion == 4
HoldThreshold == 64
PlayedBeforeHold == 32

Ones == <<"o", "n", "e", "s">>

BinaryExpression(op, left, right) == Expr("BinaryExpression", None, op, <<left, right>>)

\* binary_ops[op.value] for +, -, * and %
binary_ops(op, left, right) ==
    CASE op = <<"+">> -> left + right
      [] op = <<"-">> -> left - right
      [] op = <<"*">> -> left * right
      [] op = <<"%">> -> left % right

\* the first of two errors
FirstOf(left, right) == IF left # "" THEN left ELSE right

\* Interpreter.visit_BinaryExpression over operands that are no binary
\* expressions
BinaryLeaves(e, records, scope) ==
    [value |-> IntValue(binary_ops(e.name, Eval(e.arguments[1], records, scope).value.n,
                                   Eval(e.arguments[2], records, scope).value.n)),
     error |-> FirstOf(Eval(e.arguments[1], records, scope).error,
                       Eval(e.arguments[2], records, scope).error)]

\* an operand of a binary expression
Operand(e, records, scope) ==
    IF e.kind = "BinaryExpression" THEN BinaryLeaves(e, records, scope)
    ELSE Eval(e, records, scope)

\* self.interpreter.visit(duration_arg) for the duration of a play: a
\* literal, an identifier or binary expressions two deep
visit_duration(e, records, scope) ==
    IF e.kind # "BinaryExpression" THEN Eval(e, records, scope)
    ELSE [value |-> IntValue(binary_ops(e.name, Operand(e.arguments[1], records, scope).value.n,
                                        Operand(e.arguments[2], records, scope).value.n)),
          error |-> FirstOf(Operand(e.arguments[1], records, scope).error,
                            Operand(e.arguments[2], records, scope).error)]

\* next(iter(record.members)) of the record of a loop: its loop variable
loop_var_of(record) == CHOOSE name \in DOMAIN record.members : TRUE

\* record[loop_var] = value for the record at place k
with_loop_value(records, k, value) ==
    [records EXCEPT ![k].members = SetItem(@, loop_var_of(records[k]), IntValue(value))]

\* _loop_parameters: does the duration change when the loop variable of the
\* record at place k is varied by 1
varies(duration_arg, records, scope, k) ==
    visit_duration(duration_arg,
                   with_loop_value(records, k,
                                   records[k].members[loop_var_of(records[k])].n + 1),
                   scope).value.n
        # visit_duration(duration_arg, records, scope).value.n

\* _loop_parameters: the place of the first record of a for loop in the call
\* stack whose variable the duration depends on, 0 for None
_loop_parameters(duration_arg, records, scope) ==
    LET places == {k \in 1..Len(records) :
                      /\ records[k].name = "for loop"
                      /\ varies(duration_arg, records, scope, k)}
    IN  IF places = {} THEN 0 ELSE CHOOSE k \in places : \A j \in places : k <= j

\* the value of the loop variable the play in the if-block is printed for
next_loop_value(loop_value) == loop_value + 1

PlayOf(frame, duration_arg) ==
    FunctionCall(Play, <<Identifier(frame), FunctionCall(Ones, <<duration_arg>>)>>)

\* a + i * b, a - i * b and i % b for a loop variable i
Growing(a, i, b) ==
    BinaryExpression(<<"+">>, IntegerLiteralOf(a),
                     BinaryExpression(<<"*">>, Identifier(i), IntegerLiteralOf(b)))
Shrinking(a, i, b) ==
    BinaryExpression(<<"-">>, IntegerLiteralOf(a),
                     BinaryExpression(<<"*">>, Identifier(i), IntegerLiteralOf(b)))
Alternating(i, b) == BinaryExpression(<<"%">>, Identifier(i), IntegerLiteralOf(b))

\* the durations played: as in test_play_ones, start_time + i * time_step,
\* and durations that do not grow with the loop variable
PlayDurations ==
    {Growing(a, i, b) : a \in {32, 48, 64}, i \in {VarA, VarB}, b \in {16, 32}}
    \cup {Shrinking(48, i, 16) : i \in {VarA, VarB}}
    \cup {Alternating(VarA, 2), IntegerLiteralOf(16), IntegerLiteralOf(128),
          Identifier(VarC)}

\* for a in [start:3] { block }
PlayLoop(i, start, block) ==
    ForInLoop(i, RangeDefinition(start, IntegerLiteralOf(3), NoExpr), block)

PlayStarts == {NoExpr, IntegerLiteralOf(1)}

\* a play in one loop or in two nested loops
PlayLoops ==
    {PlayLoop(VarA, start, <<ExpressionStatement(PlayOf(Frame1, duration))>>) :
        start \in PlayStarts, duration \in PlayDurations}
    \cup {PlayLoop(VarA, start,
                   <<PlayLoop(VarB, inner, <<ExpressionStatement(PlayOf(Frame1, duration))>>)>>) :
             start \in PlayStarts, inner \in PlayStarts, duration \in PlayDurations}

\* the printer after construction, given a declaration, of the frame played
\* or of an integer, and the loops
InitPlay ==
    /\ pc = "walk"
    /\ visitor = [class |-> "SEQCPrinter", visit_loops |-> TRUE]
    /\ statements \in {<<declaration, loop>> :
                          declaration \in {NewFrameOn(Frame1, Port1),
                                           ClassicalDeclaration("IntType", VarC,
                                                                IntegerLiteralOf(0))},
                          loop \in PlayLoops}
    /\ interpret = TRUE
    /\ self_context = "None"
    /\ previous = <<>>
    /\ play_frames = <<>>
    /\ subroutines = EmptyDict
    /\ phases = None /\ external_funcs = None
    /\ todo = <<Item("program", visitor.class, NoExpr, None, NoneValue)>>
    /\ call_stack = <<>>
    /\ calibration_scope = EmptyDict
    /\ defcal_names = <<>>
    /\ defcal_nodes = EmptyDict
    /\ flagged_wfs = <<>>
    /\ error = NoError
    /\ trace = <<>>
    /\ lhs = None /\ rhs = None /\ added = None
    /\ frame_times = None /\ invoked = None /\ raised = None /\ calls = 0
    /\ NoMangleState
    /\ NoMatchState
    /\ NoPassState
    /\ NoSemState

playFrame ==
    <<pc, mangleVars, matchVars, passVars, visitor, statements, semVars, durationVars,
      frameVars, phases, subroutines, external_funcs, scopeVars, calibration_scope,
      defcalVars, flagged_wfs>>

\* SEQCPrinter.visit_ExpressionStatement: the expression is visited
SEQCPrinter_visit_ExpressionStatement ==
    /\ Doing("visit", "SEQCPrinter")
    /\ Head(todo).node.kind = "ExpressionStatement"
    /\ todo' = <<VisitItem("SEQCPrinter", Head(todo).node.expression)>> \o Tail(todo)
    /\ UNCHANGED <<playFrame, play_frames, call_stack, error, trace>>

PlayEvent(event, frame, duration) ==
    [event |-> event, name |-> frame, value |-> IntValue(duration)]

ReturnItem == Item("return", "SEQCPrinter", NoExpr, None, NoneValue)

\* SEQCPrinter.visit_FunctionCall of a play and visit_play of a 'ones'
\* waveform.  A call of visit_play beyond the recursion limit of Python is a
\* RecursionError; the frame is looked up in the call stack; a duration the
\* interpreter cannot evaluate counts as 64 samples.  A duration of 64
\* samples or more is played for 32 samples and held; a shorter one that
\* depends on no loop variable is played; for a shorter one that depends on
\* a loop variable the branch is printed: the play itself with the loop
\* variable raised by one, and the play of the constant duration if that is
\* above 0.
SEQCPrinter_visit_play ==
    /\ Doing("method", "SEQCPrinter")
    /\ Head(todo).node.kind = "FunctionCall"
    /\ Head(todo).node.name = Play
    /\ \E frame \in {Head(todo).node.arguments[1].name} :
       \E duration_arg \in {Head(todo).node.arguments[2].arguments[1]} :
       \E visited \in {visit_duration(duration_arg, call_stack, calibration_scope)} :
       \E duration \in {IF visited.error # "" THEN HoldThreshold ELSE visited.value.n} :
       \E k \in {_loop_parameters(duration_arg, call_stack, calibration_scope)} :
          CASE Len(play_frames) >= MaxRecursion ->
                   /\ Raise("RecursionError", Tail(todo))
                   /\ play_frames' = <<>>
                   /\ UNCHANGED <<call_stack, trace>>
            [] Len(play_frames) < MaxRecursion
               /\ down_stack(call_stack, calibration_scope, frame) = 0 ->
                   /\ Raise("KeyError", Tail(todo))
                   /\ play_frames' = <<>>
                   /\ UNCHANGED <<call_stack, trace>>
            [] Len(play_frames) < MaxRecursion
               /\ down_stack(call_stack, calibration_scope, frame) # 0
               /\ duration >= HoldThreshold ->
                   /\ trace' = trace \o <<PlayEvent("play", frame, PlayedBeforeHold),
                                          PlayEvent("hold", frame, duration - PlayedBeforeHold)>>
                   /\ todo' = Tail(todo)
                   /\ UNCHANGED <<play_frames, call_stack, error>>
            [] Len(play_frames) < MaxRecursion
               /\ down_stack(call_stack, calibration_scope, frame) # 0
               /\ duration < HoldThreshold
               /\ k = 0 ->
                   /\ trace' = Append(trace, PlayEvent("play", frame, duration))
                   /\ todo' = Tail(todo)
                   /\ UNCHANGED <<play_frames, call_stack, error>>
            [] OTHER ->
                   \E loop_var \in {loop_var_of(call_stack[k])} :
                   \E loop_value \in {call_stack[k].members[loop_var].n} :
                      /\ play_frames' = Append(play_frames,
                                               [record |-> k, loop_var |-> loop_var,
                                                loop_value |-> loop_value])
                      /\ call_stack' = with_loop_value(call_stack, k,
                                                       next_loop_value(loop_value))
                      /\ todo' = <<VisitItem("SEQCPrinter", Head(todo).node)>>
                                 \o (IF duration > 0
                                     THEN <<VisitItem("SEQCPrinter",
                                                      PlayOf(frame, DurationLiteral(duration)))>>
                                     ELSE <<>>)
                                 \o <<ReturnItem>> \o Tail(todo)
                      /\ UNCHANGED <<error, trace>>
    /\ UNCHANGED playFrame

\* visit_play after the branch is printed (line 1488): record[loop_var] =
\* loop_value
SEQCPrinter_visit_play_return ==
    /\ Doing("return", "SEQCPrinter")
    /\ \E open \in {play_frames[Len(play_frames)]} :
          call_stack' = with_loop_value(call_stack, open.record, open.loop_value)
    /\ play_frames' = SubSeq(play_frames, 1, Len(play_frames) - 1)
    /\ todo' = Tail(todo)
    /\ UNCHANGED <<playFrame, error, trace>>

NextPlay ==
    \/ ar_context_manager_exit
    \/ SEQCPrinter_visit_Program
    \/ SEQCPrinter_interpreter_visit
    \/ Interpreter_visit_ClassicalDeclaration
    \/ SEQCPrinter_visit_ClassicalDeclaration
    \/ SEQCPrinter_visit_ForInLoop_block
    \/ interpret_context_manager_exit
    \/ SEQCPrinter_visit_ExpressionStatement
    \/ SEQCPrinter_visit_play
    \/ SEQCPrinter_visit_play_return

SpecPlay == InitPlay /\ [][NextPlay]_vars

(***************************************************************************)
PiSteps == 2
MaxPhase == 6

Float(n, u) == [n |-> n, u |-> u]

Residue == {-1, 0, 1}

\* x + y
Float_add(x, y) == {Float(x.n + y.n, u) : u \in Residue}

\* x % (2 * np.pi): the remainder has the sign of the divisor; a float next
\* to a multiple of 2 pi leaves a remainder next to 0 or next to 2 pi
Float_mod_2pi(x) ==
    IF x.n % (2 * PiSteps) = 0
    THEN {Float(0, 0), Float(0, 1), Float(2 * PiSteps, -1), Float(2 * PiSteps, 0)}
    ELSE {Float(x.n % (2 * PiSteps), u) : u \in Residue}

\* r - np.pi for a remainder r: 0.0 - np.pi is -np.pi and 2 * np.pi - np.pi
\* is np.pi, without rounding
Float_sub_pi(r) ==
    {Float(r.n - PiSteps, u) :
        u \in IF r = Float(0, 0) \/ r = Float(2 * PiSteps, 0) THEN {0}
              ELSE IF r.n = 0 THEN {0, 1}
              ELSE IF r.n = 2 * PiSteps THEN {-1, 0}
              ELSE Residue}

\* (phase_val + np.pi) % (2 * np.pi), a variant of the wrap that leaves out
\* the last step, the shift back by pi
wrap_unshifted(x) ==
    UNION {Float_mod_2pi(y) : y \in Float_add(x, Float(PiSteps, 0))}

\* (phase_val + np.pi) % (2 * np.pi) - np.pi, lines 640 and 648
wrap(x) ==
    UNION {Float_sub_pi(r) :
              r \in UNION {Float_mod_2pi(y) : y \in Float_add(x, Float(PiSteps, 0))}}

\* the values of the phase arguments and of the third argument of newframe
PhaseValues == {Float(n, u) : n \in (0 - MaxPhase)..MaxPhase, u \in {-1, 0, 1}}

PhaseFrames == {Frame1}

phaseFrame ==
    <<pc, mangleVars, matchVars, passVars, interpVars, semVars, durationVars,
      frame_times, raised, subroutines, external_funcs, scopeVars, play_frames>>

\* a frame is declared with newframe, with the phase that is its third
\* argument
InitPhase ==
    /\ pc = "phases"
    /\ phases \in [PhaseFrames -> PhaseValues]
    /\ subroutines = None /\ external_funcs = None
    /\ NoScopeState /\ play_frames = None
    /\ invoked = [op |-> "", frame |-> Frame1, phase |-> Float(0, 0)]
    /\ calls = 0
    /\ frame_times = None /\ raised = None
    /\ lhs = None /\ rhs = None /\ added = None
    /\ NoMangleState
    /\ NoMatchState
    /\ NoPassState
    /\ NoInterpState
    /\ NoSemState

\* visit_FunctionCall, case set_phase(frame_name, _), lines 634-641
set_phase ==
    /\ pc = "phases"
    /\ calls < MaxCalls
    /\ \E frame_name \in PhaseFrames, phase_val \in PhaseValues :
          /\ \E wrapped \in wrap(phase_val) :
                phases' = [phases EXCEPT ![frame_name] = wrapped]
          /\ invoked' = [op |-> "set_phase", frame |-> frame_name, phase |-> phase_val]
    /\ calls' = calls + 1
    /\ UNCHANGED phaseFrame

\* visit_FunctionCall, case shift_phase(frame_name, _), lines 642-649
shift_phase ==
    /\ pc = "phases"
    /\ calls < MaxCalls
    /\ \E frame_name \in PhaseFrames, shift \in PhaseValues :
          /\ \E phase_val \in Float_add(shift, phases[frame_name]) :
             \E wrapped \in wrap(phase_val) :
                phases' = [phases EXCEPT ![frame_name] = wrapped]
          /\ invoked' = [op |-> "shift_phase", frame |-> frame_name, phase |-> shift]
    /\ calls' = calls + 1
    /\ UNCHANGED phaseFrame

NextPhase == set_phase \/ shift_phase

SpecPhase == InitPhase /\ [][NextPhase]_vars

(***************************************************************************)
(* Claims about the passes of a core                                       *)
(***************************************************************************)
\* the ports a tree names: those it declares and those its frames are on
ProgramPorts(nodes) ==
    LET all == Statements(nodes)
    IN  {all[i].name : i \in {j \in 1..Len(all) : IsPort(all[j])}}
        \cup {all[i].expression.arguments[1].name :
                  i \in {j \in 1..Len(all) : IsNewFrame(all[j])}}

\* C11: for target ports none of which the program names, the tree after
\* CoreSplitter and two passes of RemoveUnused holds no port or frame
\* declaration, no call of a pulse function, no calibration definition and
\* no gate, measurement or reset call.
C11_DisjointCoreIsEmpty ==
    (pc = "removed" /\ passes = 2 /\ target_ports # {}
        /\ target_ports \cap ProgramPorts(parsed) = {}) =>
        LET all == Statements(program)
        IN  /\ \A i \in 1..Len(all) :
                   /\ ~IsPort(all[i])
                   /\ ~(all[i].kind = "ClassicalDeclaration" /\ all[i].type = "FrameType")
                   /\ ~IsDefinition(all[i])
                   /\ ~IsQuantumCall(all[i])
            /\ \A e \in FunctionCalls(program) : e.name \notin PulseFunctions


(***************************************************************************)
(* Claims about TimingConstraints                                          *)
(***************************************************************************)
\* the timing constraints of the hardware on a number of samples
MeetsTiming(length) == length >= 32 /\ length % 16 = 0

\* a value that counts samples and fails the constraints; None never does
FailsTiming(value) == value.kind # "None" /\ ~MeetsTiming(value.n)

\* the lengths that flagged_wfs holds for a node
IsFlagged(wfm) == \E i \in 1..Len(flagged_wfs) : flagged_wfs[i].wfm = wfm

\* TimingConstraints has walked the whole program and no other error ended
\* the walk
WalkedByTimingConstraints ==
    /\ visitor.class = "TimingConstraints"
    /\ todo = <<>>
    /\ error.code \in {"", "INVALID_WAVEFORM"}

CheckedNode ==
    IF Head(todo).node.kind = "DelayInstruction" THEN Head(todo).node.expression
    ELSE Head(todo).node.expression.arguments[2]

ChecksANode ==
    /\ pc = "walk"
    /\ Len(todo) > 0
    /\ Head(todo).op = "visit"
    /\ Head(todo).self = "TimingConstraints"
    /\ \/ Head(todo).node.kind = "DelayInstruction"
       \/ /\ Head(todo).node.kind = "ExpressionStatement"
          /\ Head(todo).node.expression.name \in PulseFunctions
          /\ Len(Head(todo).node.expression.arguments) = 2
          /\ ~(Head(todo).node.expression.arguments[2].kind = "FunctionCall"
               /\ Head(todo).node.expression.arguments[2].name = ExecuteTableEntry)
    /\ Eval(CheckedNode, call_stack, calibration_scope).error = ""

C12_WitnessNone ==
    /\ WalkedByTimingConstraints
    /\ flagged_wfs = <<>>
    /\ statements = <<ClassicalDeclaration("WaveformType", Waveform, NoExpr), PlayOn(Frame1)>>

\* C12 witness of the boundary: an array of exactly 32 samples was played and
\* nothing is flagged
C12_WitnessBoundary ==
    /\ WalkedByTimingConstraints
    /\ flagged_wfs = <<>>
    /\ statements = <<ClassicalDeclaration("WaveformType", Waveform, ArrayLiteral(Zeros(32))),
                      PlayOn(Frame1)>>

C13_WitnessNoViolation ==
    /\ visitor.class = "TimingConstraints"
    /\ todo = <<>>
    /\ error = NoError
    /\ statements = <<DelayInstruction(DurationLiteral(48), <<>>)>>


(***************************************************************************)
(* Claims about the Interpreter                                            *)
(***************************************************************************)
\* the integer a literal part of a range stands for
LiteralValue(e) ==
    IF e.kind = "UnaryExpression" THEN 0 - e.arguments[1].value ELSE e.value

\* the Interpreter has walked `int b = 0;` followed by a for loop over a
\* range whose start, end and step are given, with the body `b = a;`
WalkedALoop ==
    /\ visitor = [class |-> "Interpreter", visit_loops |-> TRUE]
    /\ todo = <<>>
    /\ Len(statements) = 2
    /\ statements[1] = ClassicalDeclaration("IntType", VarB, IntegerLiteralOf(0))
    /\ statements[2].kind = "ForInLoop"
    /\ statements[2].expression.kind = "RangeDefinition"
    /\ \A i \in 1..3 : statements[2].expression.arguments[i] # NoExpr
    /\ statements[2].body = <<AssignLoopVariable>>

LoopStart == LiteralValue(statements[2].expression.arguments[1])
LoopEnd == LiteralValue(statements[2].expression.arguments[2])
LoopStep == LiteralValue(statements[2].expression.arguments[3])

\* the values the loop variable was bound to at the head of an iteration, and
\* the values the body assigned to b, in order
Iterations ==
    LET bound == SelectSeq(trace, LAMBDA e : e.event = "iteration")
    IN  [k \in 1..Len(bound) |-> bound[k].value.n]
Assigned ==
    LET assigned == SelectSeq(trace, LAMBDA e : e.event = "assign")
    IN  [k \in 1..Len(assigned) |-> assigned[k].value.n]

\* C14 as stated: the iterations are i = start, start+step, ..., each strictly
\* below end, and they go on as long as the next value is below end.
C14_IterationsStrictlyBelowEnd ==
    WalkedALoop =>
        /\ \A k \in 1..Len(Iterations) :
              Iterations[k] = LoopStart + (k - 1) * LoopStep /\ Iterations[k] < LoopEnd
        /\ LoopStart + Len(Iterations) * LoopStep >= LoopEnd
        /\ Assigned = Iterations

\* a value is on the side of end that the sign of the step approaches it from
BeforeEnd(i) == IF LoopStep > 0 THEN i < LoopEnd ELSE i > LoopEnd

\* C14 (amended): for a step > 0 the body runs once for each
\* i = start, start+step, ... strictly below end, in that order, with the loop
\* variable bound to i; for a step < 0 once for each i = start, start+step, ...
\* strictly above end; a step of 0 raises a ValueError before any iteration.
C14_IterationsOfRange ==
    WalkedALoop =>
        IF LoopStep = 0 THEN error.code = "ValueError" /\ trace = <<>>
        ELSE /\ error = NoError
             /\ \A k \in 1..Len(Iterations) :
                   Iterations[k] = LoopStart + (k - 1) * LoopStep /\ BeforeEnd(Iterations[k])
             /\ ~BeforeEnd(LoopStart + Len(Iterations) * LoopStep)
             /\ Assigned = Iterations
             /\ \A k \in 1..Len(trace) :
                   trace[k].event = IF k % 2 = 1 THEN "iteration" ELSE "assign"

\* C14 witness: the loop over [0:2:10] ran for i = 0, 2, 4, 6, 8
C14_Witness ==
    /\ WalkedALoop
    /\ LoopStart = 0 /\ LoopEnd = 10 /\ LoopStep = 2
    /\ Iterations = <<0, 2, 4, 6, 8>>
    /\ Assigned = <<0, 2, 4, 6, 8>>

\* C14 witness of a negative step: the loop over [3:-1:0] ran for i = 3, 2, 1
C14_WitnessNegativeStep ==
    /\ WalkedALoop
    /\ LoopStep < 0
    /\ Iterations = <<3, 2, 1>>


\* the next step assigns to a name that no activation record on the stack
\* binds: visit_ClassicalAssignment calls down_stack(name)
AssignsToUnboundName ==
    /\ pc = "walk"
    /\ Len(todo) > 0
    /\ Head(todo).op = "visit"
    /\ Head(todo).self \in {"Interpreter", "TimingConstraints"}
    /\ Head(todo).node.kind = "ClassicalAssignment"
    /\ down_stack(call_stack, calibration_scope, Head(todo).node.name) = 0

\* C15: when no activation record on the stack binds name, down_stack(name)
\* fails with the compiler error IdentifierNotFound (ID_NOT_FOUND).
C15_DownStackFailsWithIdentifierNotFound ==
    [][AssignsToUnboundName => error'.code = "ID_NOT_FOUND"]_vars


(***************************************************************************)
(* Claims about the call stack                                             *)
(***************************************************************************)
\* the scopes that are open: the exits of ar_context_manager still to run
OpenScopes == Len(SelectSeq(todo, LAMBDA item : item.op = "exit"))

\* the records of a stack without their members
Records(records) ==
    [i \in 1..Len(records) |->
        [name |-> records[i].name, type |-> records[i].type,
         nesting_level |-> records[i].nesting_level]]

\* C20: at every moment of a walk of the Interpreter, of TimingConstraints or
\* of the SEQCPrinter, raised error or not, the call stack holds exactly one
\* record per scope that is open, so what is visited next finds the stack it
\* would have found before the visit that just returned or raised; when the
\* walk is over, by a return or by an error, the stack is empty as it was
\* before visit_Program; and a step changes the stack only at its top: it
\* pushes records above the ones that are there, or it pops the topmost one.
C20_PushedRecordsArePopped ==
    /\ [](Len(call_stack) = OpenScopes)
    /\ [](todo = <<>> => call_stack = <<>>)
    /\ [][\/ /\ Len(call_stack') >= Len(call_stack)
             /\ SubSeq(Records(call_stack'), 1, Len(call_stack)) = Records(call_stack)
          \/ /\ Head(todo).op = "exit"
             /\ call_stack' = SubSeq(call_stack, 1, Len(call_stack) - 1)]_vars

\* C20 witness: a gate call found no defcal and raised inside the two scopes
\* of quantum_gate_helper, below the scope of the program; all three records
\* were popped
C20_Witness ==
    /\ error.code = "IndexError"
    /\ todo = <<>>
    /\ call_stack = <<>>
    /\ Len(statements) = 2

\* C20 witness of an error that is still propagating: two scopes are left to
\* exit and two records are on the stack
C20_WitnessUnwinding ==
    /\ error.code # ""
    /\ Len(call_stack) = 2
    /\ OpenScopes = 2
    /\ visitor.class = "SEQCPrinter"

(***************************************************************************)
(* Claims about the SemanticAnalyzer                                       *)
(***************************************************************************)
\* declare_symbol is about to run on a name
Declaring == pc = "analyze" /\ Len(todo) > 0 /\ Head(todo).op = "declare"
InCurrentScope(name) == name \in tables[current_scope]._symbols

\* a declaration that found its name in an enclosing scope only, and passed
Redeclared(event) ==
    /\ event.event = "declare"
    /\ event.visible
    /\ tables[event.scope].enclosing_scope # 0
    /\ event.name \in tables[event.scope]._symbols

\* C16: declaring a name raises DUPLICATE_ID exactly when the name is in the
\* current scope; otherwise the name is inserted there and nothing is raised,
\* also when an enclosing scope holds the name.
C16_DuplicateIdExactlyInCurrentScope ==
    [][Declaring =>
        /\ (error'.code = "DUPLICATE_ID") <=> InCurrentScope(Head(todo).name)
        /\ ~InCurrentScope(Head(todo).name) =>
              /\ error' = NoError
              /\ tables' = insert(tables, current_scope, Head(todo).name)]_vars

\* int a; while (true) { int a; } has been analyzed without an error
C16_Witness ==
    /\ pc = "analyze"
    /\ todo = <<>>
    /\ error = NoError
    /\ \E i \in 1..Len(trace) :
          /\ Redeclared(trace[i])
          /\ trace[i].name = VarA

\* a second declaration of a name in the same scope has raised
C16_WitnessDuplicate ==
    /\ pc = "analyze"
    /\ error.code = "DUPLICATE_ID"
    /\ Len(trace) > 1
    /\ trace[Len(trace)].scope = trace[1].scope
    /\ trace[Len(trace)].name = trace[1].name

\* the statements ensure_in_global_scope guards
MustBeGlobal(node) ==
    \/ node.kind \in {"SubroutineDefinition", "QuantumGateDefinition",
                      "CalibrationDefinition", "QubitDeclaration"}
    \/ node.kind = "ClassicalDeclaration" /\ node.type = "ArrayType"

VisitingGlobalOnly ==
    /\ pc = "analyze" /\ Len(todo) > 0 /\ Head(todo).op = "visit"
    /\ MustBeGlobal(Head(todo).node)

\* C17: a subroutine, gate or calibration definition, a qubit or an array
\* declaration raises NOT_IN_GLOBAL_SCOPE exactly when it is visited while
\* scope_context is not GLOBAL, and scope_context is not GLOBAL exactly
\* inside the body of a statement of the program.
C17_NotInGlobalScopeExactlyOutsideGlobal ==
    /\ [][VisitingGlobalOnly =>
            ((error'.code = "NOT_IN_GLOBAL_SCOPE") <=> (scope_context # "GLOBAL"))]_vars
    /\ [](pc = "analyze" /\ Len(enclosing) > 1 => scope_context # "GLOBAL")
    /\ [](pc = "analyze" /\ Len(enclosing) = 1 => scope_context = "GLOBAL")

\* a qubit declaration in the body of a while loop has raised
C17_Witness ==
    /\ pc = "analyze"
    /\ error.code = "NOT_IN_GLOBAL_SCOPE"
    /\ Len(statements) = 1
    /\ statements[1] = While(<<QubitA>>)

\* a qubit declaration after a loop has been analyzed without an error
C17_WitnessGlobal ==
    /\ pc = "analyze"
    /\ todo = <<>>
    /\ error = NoError
    /\ Len(statements) = MaxSem
    /\ statements[1].kind = "WhileLoop"
    /\ statements[MaxSem] = QubitA

(***************************************************************************)
(* Claims about Frame and Duration                                         *)
(***************************************************************************)
\* the call just made on the frames
Invoked(op) == invoked'.op = op /\ calls' = calls + 1

\* C18: advance_to raises when the target is earlier than the time of the
\* frame and then leaves that time as it was, and after an advance_to or a
\* barrier that raised nothing no frame is at an earlier time than before.
C18_AdvanceToNeverMovesTimeBackward ==
    [][/\ Invoked("advance_to") =>
            /\ Duration_lt(invoked'.duration, frame_times[invoked'.frame]) =>
                  /\ raised' = "ValueError"
                  /\ frame_times'[invoked'.frame] = frame_times[invoked'.frame]
            /\ raised' = "" =>
                  ~Duration_lt(frame_times'[invoked'.frame], frame_times[invoked'.frame])
       /\ Invoked("barrier") /\ raised' = "" =>
            \A i \in 1..Len(frame_times) : ~Duration_lt(frame_times'[i], frame_times[i])]_vars

\* an advance_to whose target is earlier than the time of the frame raises
\* and leaves the time of the frame as it was
AdvanceToRaisesOnEarlierTarget ==
    [][Invoked("advance_to")
          /\ Duration_lt(invoked'.duration, frame_times[invoked'.frame]) =>
              /\ raised' = "ValueError"
              /\ frame_times'[invoked'.frame] = frame_times[invoked'.frame]]_vars

\* an advance_to of 3 dt, which is 1.5 ns, has raised nothing and left the
\* frame at 1 ns
AdvancedToOwnTimeMovedBack ==
    /\ invoked.op = "advance_to"
    /\ invoked.duration = Duration(Whole(3), "dt")
    /\ raised = ""
    /\ frame_times[invoked.frame] = Duration(Whole(1), "ns")
    /\ calls = 2

\* C19: the real time of lhs + rhs is the sum of the real times of lhs and
\* rhs, whatever their units, and the sum is in the unit of lhs.
C19_RealTimeOfSumIsSumOfRealTimes ==
    pc = "added" =>
        /\ real_time(added) = Plus(real_time(lhs), real_time(rhs))
        /\ added.unit = lhs.unit

\* 1 ns + 1 dt has been added: 1.5 ns
C19_Witness ==
    /\ pc = "added"
    /\ lhs = Duration(Whole(1), "ns")
    /\ rhs = Duration(Whole(1), "dt")
    /\ added = Duration(Rational(3, 2), "ns")

\* a time in seconds has been added to a time in dt
C19_WitnessWidestUnits ==
    /\ pc = "added"
    /\ lhs.unit = "dt"
    /\ rhs.unit = "s"
    /\ rhs.time # Whole(0)

(***************************************************************************)
(* Claims about for loops                                                  *)
(***************************************************************************)
\* the walk of `int b = 0;` and a for loop by this class of visitor is over
WalkedLoopBy(class) ==
    /\ visitor.class = class
    /\ visitor.visit_loops
    /\ todo = <<>>
    /\ Len(statements) = 2
    /\ statements[2].kind = "ForInLoop"

\* C30: the Interpreter (visit_loops=True) fails with UNHANDLED on a for loop
\* over a DiscreteSet, whatever the set, and executes no statement of the
\* body: the loop variable is never bound and nothing is assigned.
C30_DiscreteSetFailsWithUnhandled ==
    WalkedLoopBy("Interpreter") /\ statements[2].expression.kind = "DiscreteSet" =>
        /\ error.code = "UNHANDLED"
        /\ trace = <<>>

\* what the Interpreter does with a DiscreteSet: a ValueError of Python and
\* no iteration, unless the set has three distinct values; then no error and
\* the iterations of range(least, middle, greatest)
DiscreteSetUnpackedAsRange ==
    WalkedLoopBy("Interpreter") /\ statements[2].expression.kind = "DiscreteSet" =>
        /\ error.code # "UNHANDLED"
        /\ Cardinality(visit_DiscreteSet(statements[2].expression, <<>>, EmptyDict)) # 3 =>
              error.code = "ValueError" /\ trace = <<>>
        /\ Cardinality(visit_DiscreteSet(statements[2].expression, <<>>, EmptyDict)) = 3 =>
              Iterations = <<Yielded(visit_DiscreteSet(statements[2].expression, <<>>, EmptyDict), 1)>>

\* the loop over {1, 2, 3} has run its body `b = a;` once, with a = 1, and
\* the walk has ended without an error
DiscreteSetLoopRan ==
    /\ WalkedLoopBy("Interpreter")
    /\ statements[2].expression =
          DiscreteSet(<<IntegerLiteralOf(1), IntegerLiteralOf(2), IntegerLiteralOf(3)>>)
    /\ error = NoError
    /\ Iterations = <<1>>
    /\ Assigned = <<1>>

\* the loop over {1, 2} has ended in a ValueError
DiscreteSetLoopValueError ==
    /\ WalkedLoopBy("Interpreter")
    /\ statements[2].expression = DiscreteSet(<<IntegerLiteralOf(1), IntegerLiteralOf(2)>>)
    /\ error.code = "ValueError"

\* the value a part of a range stands for, or what visit_RangeDefinition
\* takes when the part is left out
PartOr(e, default) == IF e = NoExpr THEN default ELSE IntValue(LiteralValue(e))
StartOfRange == PartOr(statements[2].expression.arguments[1], IntValue(0))
EndOfRange == PartOr(statements[2].expression.arguments[2], NoneValue)
StepOfRange == PartOr(statements[2].expression.arguments[3], IntValue(1))

\* the values the loop variable was bound to before a visit of the body, and
\* the values the body `b = a;` assigned, in order
Bound ==
    LET bound == SelectSeq(trace, LAMBDA e : e.event = "iteration")
    IN  [k \in 1..Len(bound) |-> bound[k].value]
AssignedValues ==
    LET assigned == SelectSeq(trace, LAMBDA e : e.event = "assign")
    IN  [k \in 1..Len(assigned) |-> assigned[k].value]

BoundaryIterations == <<StartOfRange, IntValue(StartOfRange.n + StepOfRange.n), EndOfRange>>

C27_WitnessEmptyRange ==
    /\ WalkedLoopBy("TimingConstraints")
    /\ statements[2].expression.kind = "RangeDefinition"
    /\ StartOfRange = IntValue(3) /\ StepOfRange = IntValue(2) /\ EndOfRange = IntValue(0)
    /\ AssignedValues = <<IntValue(3), IntValue(5), IntValue(0)>>

\* C27 witness of a range without an end: [2:] was checked for 2, 3 and None
C27_WitnessNoEnd ==
    /\ WalkedLoopBy("TimingConstraints")
    /\ statements[2].expression.kind = "RangeDefinition"
    /\ StartOfRange = IntValue(2) /\ EndOfRange = NoneValue
    /\ AssignedValues = <<IntValue(2), IntValue(3), NoneValue>>

(***************************************************************************)
(* Claims about the dispatch of gate calls                                 *)
(***************************************************************************)
\* the names of the members of ErrorCode (compiler_error.py): the codes a
\* shipyard Error carries
ErrorCode ==
    {"ID_NOT_FOUND", "DUPLICATE_ID", "NOT_IN_GLOBAL_SCOPE", "INVALID_DEFCAL_ARGUMENT",
     "EXPRESSION_IN_DEFCAL", "INVALID_GATECALL_ARGUMENT", "UNHANDLED", "UNDETERMINED_CALL",
     "NO_SEQC_STATEMENT", "COMPILE_OUT", "PORT_NOT_FOUND", "INSTRUMENT_NOT_FOUND",
     "INPUT_NOT_FOUND", "OUTPUT_NOT_SUPPORTED", "INPUT_TYPE_NOT_SUPPORTED",
     "INVALID_ARGUMENT", "INVALID_WAVEFORM", "INCLUDE_ERROR"}

\* quantum_gate_helper is about to dispatch a gate call that no calibration
\* definition visited so far matches
DispatchingUnmatchedGate ==
    /\ Visiting("Interpreter", "QuantumGate")
    /\ Match(ManglerSignature(Head(todo).node), defcal_names) = <<>>

\* C22: a gate call that matches no calibration definition makes the
\* dispatching visitor (the Interpreter, also as the base of
\* TimingConstraints and as the interpreter of the SEQCPrinter) fail with a
\* shipyard Error that carries an ErrorCode.
C22_UnmatchedCallFailsWithCompilerError ==
    [][DispatchingUnmatchedGate => error'.code \in ErrorCode]_vars

\* what the dispatch of an unmatched gate call does: signature.match(...)[0]
\* raises the IndexError of Python
UnmatchedCallFailsWithIndexError ==
    [][DispatchingUnmatchedGate => error'.code = "IndexError"]_vars

\* `y $0;` with no defcal of y has ended the walk in an IndexError
UnmatchedGateRaisedIndexError ==
    /\ statements = <<QuantumGate(NameY, <<>>, <<Phys0>>)>>
    /\ todo = <<>>
    /\ error.code = "IndexError"

(***************************************************************************)
(* Claims about the score of a match                                       *)
(***************************************************************************)
\* the exact matches of a definition d with the call c: its literal
\* parameters equal to the argument of the call, and its qubits equal to the
\* qubit of the call or wildcard where the call has a wildcard
ExactMatches(c, d) ==
    Cardinality({i \in 1..Min(Len(c.params), Len(d.params)) :
                    is_number(d.params[i]) /\ d.params[i] = c.params[i]})
    + Cardinality({i \in 1..Min(Len(c.qubits), Len(d.qubits)) :
                    \/ d.qubits[i] = c.qubits[i]
                    \/ ~Contains(c.qubits[i], DOLLAR) /\ ~Contains(d.qubits[i], DOLLAR)})

\* the partial credits: literals passed to generic parameters and physical
\* qubits passed to wildcard qubits
PartialCredits(c, d) ==
    Cardinality({i \in 1..Min(Len(c.params), Len(d.params)) :
                    ~is_number(d.params[i]) /\ is_number(c.params[i])})
    + Cardinality({i \in 1..Min(Len(c.qubits), Len(d.qubits)) :
                    Contains(c.qubits[i], DOLLAR) /\ ~Contains(d.qubits[i], DOLLAR)})

\* candidate k survived the filtering and no position of it conflicts
Survives(k) ==
    /\ mangle(candidates[k]) \in Range(f_symbols)
    /\ ~LiteralConflict(call, candidates[k])
    /\ ~QubitConflict(call, candidates[k])

\* the score match_dict holds for candidate k
ScoreOf(k) ==
    match_dict[CHOOSE i \in 1..Len(match_dict) :
                   match_dict[i].symbol = mangle(candidates[k])].matches

\* C25: of two candidates that survive filtering without conflict, the one
\* with more exact matches has the strictly higher score, however many
\* partial credits the other one collects.
C25_ExactMatchesDominate ==
    pc = "matched" =>
        \A k, l \in 1..Len(candidates) :
            /\ Survives(k) /\ Survives(l)
            /\ ExactMatches(call, candidates[k]) > ExactMatches(call, candidates[l])
            => ScoreOf(k) > ScoreOf(l)

\* C25 witness: x(1, 1) $0 $0 scored against x(1, p) q q, one exact match and
\* three partial credits, and against x(1, 1) $0 q, three exact matches
C25_Witness ==
    /\ pc = "matched"
    /\ Len(candidates) = 2
    /\ Survives(1) /\ Survives(2)
    /\ ExactMatches(call, candidates[1]) = 1
    /\ PartialCredits(call, candidates[1]) = 3
    /\ ExactMatches(call, candidates[2]) = 3
    /\ ScoreOf(2) > ScoreOf(1)

\* C25 witness of a candidate that collects every partial credit there is:
\* x(p, p) q q, four partial credits, scored below x(p, p) q $0, which has
\* one exact match
C25_WitnessAllPartial ==
    /\ pc = "matched"
    /\ Len(candidates) = 2
    /\ Survives(1) /\ Survives(2)
    /\ ExactMatches(call, candidates[1]) = 0
    /\ PartialCredits(call, candidates[1]) = 4
    /\ ExactMatches(call, candidates[2]) = 1
    /\ ScoreOf(2) > ScoreOf(1)

(***************************************************************************)
(* Claims about dispatch after RemoveUnused                                *)
(***************************************************************************)
\* the names Interpreter.visit_CalibrationDefinition stores in defcal_names
\* for the definitions of a tree, in the order of their declaration
defcal_names_of(nodes) ==
    LET all == SelectSeq(nodes, IsDefinition)
    IN  [i \in 1..Len(all) |-> mangle(ManglerSignature(all[i]))]

\* the first-ranked match of a call among the definitions of a tree, None
\* when nothing matches
Dispatched(c, nodes) ==
    LET matches == Match(ManglerSignature(c), defcal_names_of(nodes))
    IN  IF Len(matches) = 0 THEN None ELSE matches[1]

\* every call of the tree comes after every definition of it
DefinitionsFirst(nodes) ==
    \A i, j \in 1..Len(nodes) :
        IsDefinition(nodes[i]) /\ IsQuantumCall(nodes[j]) => i < j

\* C23: every call that remains after a pass of RemoveUnused dispatches,
\* among the definitions that remain, to the definition it dispatched to
\* among the definitions of the tree handed to the pass.
C23_DispatchPreserved ==
    (pc = "removed" /\ passes = 1 /\ DefinitionsFirst(parsed)) =>
        \A j \in 1..Len(program) :
            IsQuantumCall(program[j])
                => Dispatched(program[j], program) = Dispatched(program[j], parsed)

\* a call remains after the pass and the definition it dispatched to does not
DispatchLostByRemoveUnused ==
    /\ pc = "removed" /\ passes = 1 /\ DefinitionsFirst(parsed)
    /\ \E j \in 1..Len(program) :
        /\ IsQuantumCall(program[j])
        /\ Dispatched(program[j], parsed) # None
        /\ Dispatched(program[j], program) = None

(***************************************************************************)
(* Claims about stripped return types                                      *)
(***************************************************************************)
\* definition k of the tree after the pass declared a return type in the
\* tree handed to the pass and no ReturnStatement is left in its body
LostItsReturn(k) ==
    /\ IsDefinition(program[k])
    /\ ~has_return(program[k].body)
    /\ \E i \in 1..Len(parsed) :
        /\ IsDefinition(parsed[i])
        /\ HeadOf(parsed[i]) = HeadOf(program[k])
        /\ parsed[i].return_type # None

\* statement j of the tree handed to the pass is a measurement statement
\* that dispatches to definition k of the tree after the pass
MeasuresWith(j, k) ==
    /\ parsed[j].kind = "QuantumMeasurementStatement"
    /\ \E i \in 1..Len(parsed) :
        /\ IsDefinition(parsed[i])
        /\ HeadOf(parsed[i]) = HeadOf(program[k])
        /\ Dispatched(parsed[j], parsed) = mangle(ManglerSignature(parsed[i]))

\* C24: a kept calibration definition that declared a return type and has no
\* ReturnStatement left in its body has its return type stripped, and every
\* measurement statement that resolves to it is kept with its target cleared.
C24_ReturnTypeStrippedAndTargetsCleared ==
    (pc = "removed" /\ passes = 1 /\ DefinitionsFirst(parsed)) =>
        \A k \in 1..Len(program) :
            LostItsReturn(k) =>
                /\ program[k].return_type = None
                /\ \A j \in 1..Len(parsed) :
                    MeasuresWith(j, k) =>
                        /\ [parsed[j] EXCEPT !.target = None] \in Range(program)
                        /\ parsed[j].target # None => parsed[j] \notin Range(program)

\* the return type is stripped whenever no ReturnStatement is left
ReturnTypeStripped ==
    (pc = "removed" /\ passes = 1) =>
        \A k \in 1..Len(program) : LostItsReturn(k) => program[k].return_type = None

\* a measurement statement keeps its target although the definition it
\* resolves to has lost its return type
TargetKeptAfterReturnTypeStripped ==
    /\ pc = "removed" /\ passes = 1 /\ DefinitionsFirst(parsed)
    /\ \E k \in 1..Len(program) :
        /\ LostItsReturn(k)
        /\ program[k].return_type = None
        /\ \E j \in 1..Len(parsed) :
            /\ MeasuresWith(j, k)
            /\ parsed[j].target # None
            /\ parsed[j] \in Range(program)

(***************************************************************************)
(* Claims about the phase of a frame                                       *)
(***************************************************************************)
\* -pi < x, -pi <= x, x <= pi and x < pi
AbovePi(x) == x.n > PiSteps \/ (x.n = PiSteps /\ x.u > 0)
BelowMinusPi(x) == x.n < 0 - PiSteps \/ (x.n = 0 - PiSteps /\ x.u < 0)
IsPi(x) == x = Float(PiSteps, 0)
IsMinusPi(x) == x = Float(0 - PiSteps, 0)

\* the frame the last call was made on
Called == phases[invoked.frame]

\* C29: after a set_phase or shift_phase call the phase of the frame lies in
\* (-pi, pi]: -pi is excluded and pi is included.
C29_PhaseAboveMinusPiUpToPi ==
    (pc = "phases" /\ calls > 0) =>
        ~AbovePi(Called) /\ ~BelowMinusPi(Called) /\ ~IsMinusPi(Called)

\* C29 as the code has it: after a set_phase or shift_phase call the phase
\* of the frame is at least -pi and at most pi, both ends included.
C29_PhaseFromMinusPiUpToPi ==
    (pc = "phases" /\ calls > 0) =>
        ~AbovePi(Called) /\ ~BelowMinusPi(Called)

\* C29 witness: set_phase(frame, pi) has stored -pi
C29_Witness ==
    /\ pc = "phases" /\ calls > 0
    /\ invoked.op = "set_phase"
    /\ IsPi(invoked.phase)
    /\ IsMinusPi(Called)

\* C29 witness: a phase a rounding error under -pi has been stored as pi
C29_WitnessRoundedToPi ==
    /\ pc = "phases" /\ calls > 0
    /\ invoked.op = "set_phase"
    /\ invoked.phase = Float(0 - PiSteps, -1)
    /\ IsPi(Called)

\* C29 witness: shift_phase has taken a frame from under pi to -pi
C29_WitnessShifted ==
    /\ pc = "phases" /\ calls > 1
    /\ invoked.op = "shift_phase"
    /\ invoked.phase = Float(1, 0)
    /\ IsMinusPi(Called)

(***************************************************************************)
(* Claims about calls of subroutines                                       *)
(***************************************************************************)
\* the program defines f with a body that has no ReturnStatement and whose
\* statements assign the argument to the declared variable b, and calls it
\* with a literal
CallsSubroutineWithoutReturn ==
    /\ pc = "walk"
    /\ Len(statements) = 3
    /\ statements[2].kind = "SubroutineDefinition"
    /\ ~has_return(statements[2].body)
    /\ \A i \in 1..Len(statements[2].body) :
           statements[2].body[i] = ClassicalAssignment(VarB, Identifier(VarA))
    /\ statements[3].expression.arguments[1].kind = "IntegerLiteral"
    /\ ~(external_funcs.is_dict /\ NameF \in external_funcs.keys)

\* every statement of the body has been executed once, in order
BodyExecutedOnce ==
    trace = [i \in 1..Len(statements[2].body) |->
                [event |-> "assign", name |-> VarB, value |-> IntValue(1)]]

\* C26: a call of a subroutine whose body has no top-level ReturnStatement
\* executes every statement of the body once, in order, and completes
\* without error.
C26_CallWithoutReturnCompletes ==
    (CallsSubroutineWithoutReturn /\ todo = <<>>) =>
        BodyExecutedOnce /\ error = NoError

\* what the call does: it ends in an error, UNHANDLED when external_funcs is
\* a dict and the TypeError of `in None` when it is not
CallWithoutReturnRaises ==
    (CallsSubroutineWithoutReturn /\ todo = <<>>) =>
        IF external_funcs.is_dict
        THEN BodyExecutedOnce /\ error.code = "UNHANDLED"
        ELSE trace = <<>> /\ error.code = "TypeError"

\* the body has been executed and the call has raised UNHANDLED
CallWithoutReturnRaisedUnhandled ==
    /\ CallsSubroutineWithoutReturn /\ todo = <<>>
    /\ Len(statements[2].body) > 0
    /\ BodyExecutedOnce
    /\ error.code = "UNHANDLED"

\* a call of a subroutine whose body ends in a ReturnStatement has completed
CallWithReturnCompleted ==
    /\ pc = "walk" /\ todo = <<>>
    /\ Len(statements) = 3
    /\ has_return(statements[2].body)
    /\ external_funcs = ExternalDict({})
    /\ Len(trace) > 0
    /\ error = NoError

(***************************************************************************)
(* Claims about the scoped regions                                         *)
(***************************************************************************)
\* the managers whose finally has not run yet
OpenManagers == Len(SelectSeq(todo, LAMBDA item : item.op = "restore"))

\* a manager is entered in this step
ManagerEntered == Len(previous') = Len(previous) + 1

\* a manager is left in this step
ManagerLeft == Len(previous') = Len(previous) - 1

\* the flag and the context as the constructors set them
AsConstructed == interpret = TRUE /\ self_context = "None"

\* what a manager keeps at entry is the value of before the region, and what
\* is there after the region is what the manager kept
RestoredOnExit ==
    /\ ManagerEntered /\ visitor.class = "SEQCPrinter" =>
           /\ previous'[Len(previous')] = interpret
           /\ interpret' = FALSE
    /\ ManagerEntered /\ visitor.class = "CoreSplitter" =>
           previous'[Len(previous')] = self_context
    /\ ManagerLeft /\ visitor.class = "SEQCPrinter" =>
           /\ interpret' = previous[Len(previous)]
           /\ self_context' = self_context
    /\ ManagerLeft /\ visitor.class = "CoreSplitter" =>
           /\ self_context' = previous[Len(previous)]
           /\ interpret' = interpret
    /\ ~ManagerEntered /\ ~ManagerLeft =>
           /\ interpret' = interpret /\ self_context' = self_context
           /\ previous' = previous

\* every manager that was entered is left, after an error too; the flag is
\* off within the managers of the printer; and when the walk has ended, with
\* or without an error, the flag and the context are as constructed
RegionsClosed ==
    /\ Len(previous) = OpenManagers
    /\ visitor.class = "SEQCPrinter" /\ Len(previous) > 0 => interpret = FALSE
    /\ todo = <<>> => previous = <<>> /\ AsConstructed

\* C21: the interpret flag of the printer and the scope context of
\* CoreSplitter are restored to the value they had before a scoped region
\* was entered on every exit from the region, an exit by a raised error
\* included; the flag is off while the body of a subroutine, a defcal or a
\* for loop is printed and has its previous value afterwards.
C21_RestoredOnEveryExit == []RegionsClosed /\ [][RestoredOnExit]_vars

\* an error raised within the body of a subroutine has ended the walk of the
\* printer, and the flag is on again
C21_Witness ==
    /\ visitor.class = "SEQCPrinter"
    /\ todo = <<>>
    /\ statements[1].kind = "SubroutineDefinition"
    /\ statements[1].name = NameF
    /\ error.code = "INVALID_ARGUMENT"
    /\ interpret = TRUE

\* an error raised within a defcal within a subroutine has ended the walk of
\* the splitter, and the context is None again
C21_WitnessSplitter ==
    /\ visitor.class = "CoreSplitter"
    /\ todo = <<>>
    /\ statements[1].kind = "SubroutineDefinition"
    /\ statements[1].body[1].kind = "CalibrationDefinition"
    /\ error.code = "UNHANDLED"
    /\ self_context = "None"

\* the error is on its way out of two regions: the flag is still off and the
\* finally of both managers is yet to run
C21_WitnessLeaving ==
    /\ visitor.class = "SEQCPrinter"
    /\ error # NoError
    /\ Len(previous) = 2
    /\ interpret = FALSE

\* the statement after a for loop is visited with the flag on
C21_WitnessAfterLoop ==
    /\ Doing("visit", "SEQCPrinter")
    /\ statements[1].kind = "ForInLoop"
    /\ Head(todo).node = statements[2]
    /\ interpret = TRUE

(***************************************************************************)
(* Claims about the play of a 'ones' waveform within loops                 *)
(***************************************************************************)
\* the start of the range of a loop of the program
StartOf(loop) ==
    IF loop.expression.arguments[1] = NoExpr THEN 0 ELSE loop.expression.arguments[1].value

\* the loop whose record is at place k of the call stack
LoopAt(k) == IF k = 2 THEN statements[2] ELSE statements[2].body[1]

\* every loop variable in the call stack has the value its loop bound it to
LoopVariablesAsOnEntry ==
    \A k \in 2..Len(call_stack) :
        call_stack[k].members[loop_var_of(call_stack[k])] = IntValue(StartOf(LoopAt(k)))

\* C28: printing a play of a 'ones' waveform whose duration depends on an
\* enclosing loop variable terminates, the recursion of visit_play stops
\* after finitely many steps for every duration expression and starting loop
\* value, and on return each loop variable in the call stack has the value
\* it had on entry.
C28_PlayTerminatesAndRestores ==
    /\ error.code # "RecursionError"
    /\ play_frames = <<>> /\ error = NoError => LoopVariablesAsOnEntry

\* when no call of visit_play is open and no error was raised, the loop
\* variables have the values the loops bound them to
PlayRestoresLoopVariables ==
    play_frames = <<>> /\ error = NoError => LoopVariablesAsOnEntry

\* a play whose duration falls with the loop variable: the recursion has
\* gone on to the recursion limit
PlayOfFallingDurationNeverReturned ==
    /\ error.code = "RecursionError"
    /\ statements[2].body[1].kind = "ExpressionStatement"
    /\ statements[2].body[1].expression.arguments[2].arguments[1] = Shrinking(48, VarA, 16)

\* the error has left the loop variable at the value the recursion gave it
LoopVariableNotRestoredAfterError ==
    /\ error.code = "RecursionError"
    /\ Len(call_stack) >= 2
    /\ ~LoopVariablesAsOnEntry

\* a play whose duration grows with the loop variable has returned: the
\* branches are printed down to the play that is held, and the loop variable
\* is at the start of the loop again
PlayOfGrowingDurationReturned ==
    /\ Doing("restore", "SEQCPrinter")
    /\ error = NoError
    /\ play_frames = <<>>
    /\ statements[2].body[1].kind = "ExpressionStatement"
    /\ statements[2].body[1].expression.arguments[2].arguments[1] = Growing(32, VarA, 16)
    /\ statements[2].expression.arguments[1] = NoExpr
    /\ trace = <<PlayEvent("play", Frame1, 32), PlayEvent("hold", Frame1, 32),
                 PlayEvent("play", Frame1, 48), PlayEvent("play", Frame1, 32)>>
    /\ LoopVariablesAsOnEntry

====
